---- MODULE Spec2Model ----
(***************************************************************************)
(* Key lifecycle policy of the CCH distributor: the policy configuration   *)
(* store, the daily reactivation sweep (ensureDailyQuotaRefresh), the      *)
(* per-user evaluator (evaluateUserKeyPolicy), the key route that calls    *)
(* it, and the admin ban / unban handlers.  Instants are milliseconds      *)
(* since the epoch, as in a JavaScript Date.                               *)
(***************************************************************************)
EXTENDS Integers, Sequences, FiniteSets, TLC

VARIABLES
  now,         \* the wall clock (new Date()), in ms
  sys,         \* the SystemState row (id = 1); sys.exists is FALSE until it is created
  users,       \* the User table: user id -> row
  keyEnabled,  \* backend: isEnabled of each user's key
  backendUsed, \* backend: cumulative usage counter of each user's key
  req,         \* per user, the position of an in-flight GET /api/user/key
  step,        \* the step that led to this state
  trace,       \* adapter calls and database writes of that step, in order
  prevSweep,   \* the sweep call that was the program's last operation, if it was one
  calc         \* inputs and results of the boundary functions (specification SpecBoundary)

vars == <<now, sys, users, keyEnabled, backendUsed, req, step, trace, prevSweep, calc>>

Null == -1             \* null of a nullable column (instants, key ids and counters are >= 0)
NonFinite == -1000001  \* stands for the numbers Number.isFinite rejects (NaN, +-Infinity)

----------------------------------------------------------------------------
(* Time *)

MINUTE_MS == 60 * 1000
HOUR_MS == 60 * MINUTE_MS
DAY_MS == 24 * HOUR_MS
BEIJING_OFFSET_MS == 8 * HOUR_MS

MaxTicks == 2        \* the clock takes the instants ClockAt(0) .. ClockAt(MaxTicks)
MaxUsage == 1        \* the backend usage counters run over 0..MaxUsage

Min2(a, b) == IF a <= b THEN a ELSE b
Max2(a, b) == IF a >= b THEN a ELSE b

\* getBeijingCalendarDate: the instant shifted so that its UTC fields read as +08:00 civil time
getBeijingCalendarDate(date) == date + BEIJING_OFFSET_MS

\* Date.UTC(year, month, day, hour, minute, 0, 0) for the (year, month, day) of
\* a shifted instant: midnight of that civil day plus hour and minute.
DateUTC(shifted, hour, minute) ==
  (shifted \div DAY_MS) * DAY_MS + hour * HOUR_MS + minute * MINUTE_MS

getBeijingTodayReactivateAtUtc(date, hour, minute) ==
  DateUTC(getBeijingCalendarDate(date), hour, minute) - BEIJING_OFFSET_MS

\* Mutant: an instant exactly on today's target counts as before it
getLatestDailyReactivateAt_Strict(date, hour, minute) ==
  LET todayTarget == getBeijingTodayReactivateAtUtc(date, hour, minute)
  IN  IF date > todayTarget THEN todayTarget ELSE todayTarget - DAY_MS

getLatestDailyReactivateAt(date, hour, minute) ==
  LET todayTarget == getBeijingTodayReactivateAtUtc(date, hour, minute)
  IN  IF date >= todayTarget THEN todayTarget ELSE todayTarget - DAY_MS

\* Mutant: the next boundary taken as the day after today's target
getNextDailyReactivateAt_FromToday(date, hour, minute) ==
  getBeijingTodayReactivateAtUtc(date, hour, minute) + DAY_MS

getNextDailyReactivateAt(date, hour, minute) ==
  LET latest == getLatestDailyReactivateAt(date, hour, minute)
  IN  latest + DAY_MS

----------------------------------------------------------------------------
(* Policy configuration store *)

DEFAULT_DAILY_QUOTA_LIMIT == 100
DEFAULT_DAILY_REACTIVATE_HOUR_BJT == 8
DEFAULT_DAILY_REACTIVATE_MINUTE_BJT == 0
MIN_DAILY_QUOTA_LIMIT == 1
MAX_DAILY_QUOTA_LIMIT == 100000
MAX_HOUR == 23
MAX_MINUTE == 59

\* A JavaScript number is an integer here: an integral value is itself,
\* NonFinite is NaN, an infinity or undefined, and Fraction(n), n odd, is n/2
Fraction(n) == 10000000 + n

IsFraction(value) == value > 5000000

\* Math.trunc: the integral part, rounding towards zero
MathTrunc(value) ==
  IF IsFraction(value)
  THEN LET n == value - Fraction(0)
       IN  IF n >= 0 THEN n \div 2 ELSE -((-n) \div 2)
  ELSE value

clampInteger(value, min, max) ==
  IF value = NonFinite THEN min ELSE Min2(max, Max2(min, MathTrunc(value)))

normalizePolicyConfig(raw) ==
  [dailyQuotaLimit |->
     clampInteger(raw.dailyQuotaLimit, MIN_DAILY_QUOTA_LIMIT, MAX_DAILY_QUOTA_LIMIT),
   dailyReactivateHourBjt |-> clampInteger(raw.dailyReactivateHourBjt, 0, MAX_HOUR),
   dailyReactivateMinuteBjt |-> clampInteger(raw.dailyReactivateMinuteBjt, 0, MAX_MINUTE)]

\* The row the upserts create (getOrCreateSystemState's create branch)
DefaultSystemState ==
  [exists |-> TRUE,
   dailyQuotaLimit |-> DEFAULT_DAILY_QUOTA_LIMIT,
   dailyReactivateHourBjt |-> DEFAULT_DAILY_REACTIVATE_HOUR_BJT,
   dailyReactivateMinuteBjt |-> DEFAULT_DAILY_REACTIVATE_MINUTE_BJT,
   lastDailyReactivateAt |-> Null]

\* The table before the row is created (its other fields are not read)
NoSystemState == [DefaultSystemState EXCEPT !.exists = FALSE]

\* prisma.systemState.upsert with an empty update: the row, created when missing
getOrCreateSystemState(s) == IF ~s.exists THEN DefaultSystemState ELSE s

\* A read that returns the clamped values and leaves the row as it was
getKeyPolicyConfig_NoWriteBack(s) == getOrCreateSystemState(s)

\* The SystemState row after getKeyPolicyConfig: created when missing, and the
\* three tunables overwritten by their clamped values when one of them differs.
\* The config it returns is normalizePolicyConfig of this row.
getKeyPolicyConfig(s) ==
  LET state == getOrCreateSystemState(s)
      normalized == normalizePolicyConfig(state)
  IN  IF \/ normalized.dailyQuotaLimit # state.dailyQuotaLimit
         \/ normalized.dailyReactivateHourBjt # state.dailyReactivateHourBjt
         \/ normalized.dailyReactivateMinuteBjt # state.dailyReactivateMinuteBjt
      THEN [state EXCEPT !.dailyQuotaLimit = normalized.dailyQuotaLimit,
                         !.dailyReactivateHourBjt = normalized.dailyReactivateHourBjt,
                         !.dailyReactivateMinuteBjt = normalized.dailyReactivateMinuteBjt]
      ELSE state

\* An update whose upsert creates the row with the defaults
updateKeyPolicyConfig_CreatesDefault(s, input) ==
  LET normalized == normalizePolicyConfig(input)
  IN  IF ~s.exists
      THEN DefaultSystemState
      ELSE [s EXCEPT !.dailyQuotaLimit = normalized.dailyQuotaLimit,
                     !.dailyReactivateHourBjt = normalized.dailyReactivateHourBjt,
                     !.dailyReactivateMinuteBjt = normalized.dailyReactivateMinuteBjt]

\* An update that also resets lastDailyReactivateAt
updateKeyPolicyConfig_ResetsStamp(s, input) ==
  LET normalized == normalizePolicyConfig(input)
  IN  [exists |-> TRUE,
       dailyQuotaLimit |-> normalized.dailyQuotaLimit,
       dailyReactivateHourBjt |-> normalized.dailyReactivateHourBjt,
       dailyReactivateMinuteBjt |-> normalized.dailyReactivateMinuteBjt,
       lastDailyReactivateAt |-> Null]

\* The SystemState row after updateKeyPolicyConfig(input)
updateKeyPolicyConfig(s, input) ==
  LET normalized == normalizePolicyConfig(input)
  IN  IF ~s.exists
      THEN [exists |-> TRUE,
            dailyQuotaLimit |-> normalized.dailyQuotaLimit,
            dailyReactivateHourBjt |-> normalized.dailyReactivateHourBjt,
            dailyReactivateMinuteBjt |-> normalized.dailyReactivateMinuteBjt,
            lastDailyReactivateAt |-> Null]
      ELSE [s EXCEPT !.dailyQuotaLimit = normalized.dailyQuotaLimit,
                     !.dailyReactivateHourBjt = normalized.dailyReactivateHourBjt,
                     !.dailyReactivateMinuteBjt = normalized.dailyReactivateMinuteBjt]

----------------------------------------------------------------------------
(* Users, the backend and the record of what an operation did *)

Users == {1, 2}
UserOrder == <<1, 2>>          \* the order of findMany's result

\* The users that act or are acted on from outside the policy: they hold a
\* session (GET /api/user/key), spend quota, and are banned and unbanned by the
\* admin.  The other users are only ever visited by the sweep.
ActiveUsers == {1}

KeyIdOf(u) == 10 + u           \* the backend key id of user u, when it has a key

\* The row prisma.user.create writes in the OAuth callback for a new user
NewUserRow(u, at) ==
  [cchKeyId |-> KeyIdOf(u), isBanned |-> FALSE, lastKnownUsage |-> 0,
   quotaWindowStartAt |-> at, quotaWindowBaseUsage |-> 0,
   keyAutoDisabled |-> FALSE, autoDisabledAt |-> Null]

\* A row without a remote key (cchKeyId is a nullable column), columns at their defaults
KeylessUserRow ==
  [cchKeyId |-> Null, isBanned |-> FALSE, lastKnownUsage |-> 0,
   quotaWindowStartAt |-> Null, quotaWindowBaseUsage |-> 0,
   keyAutoDisabled |-> FALSE, autoDisabledAt |-> Null]

\* JavaScript truthiness of user.cchKeyId (null and 0 are falsy)
HasKeyId(row) == row.cchKeyId # Null /\ row.cchKeyId # 0

\* One entry of the trace: an adapter call (getUsage, toggle, toggleUser) with
\* its argument and outcome, or a database write (writeUsage, writeReset,
\* writeDisable, writeLast, writeBan) with the value written; a writeReset
\* carries in `enabled` the keyAutoDisabled it overwrote.
Event(ev, u, enabled, ok, val) ==
  [ev |-> ev, user |-> u, enabled |-> enabled, ok |-> ok, val |-> val]

\* The state an operation works on: the two tables, the backend's key flags, the trace
World(s, us, ke) ==
  [sys |-> s, users |-> us, keyEnabled |-> ke, trace |-> <<>>, keyStatus |-> "none"]

Log(w, e) == [w EXCEPT !.trace = Append(@, e)]

\* cchClient.getKeyQuotaUsage: the backend counter, or 0 when the request failed
\* (the failure is caught inside the client and replaced by zeros)
getKeyQuotaUsage(u, ok) == IF ok THEN backendUsed[u] ELSE 0

\* cchClient.toggleKeyEnabled(key of u, enabled): on success the backend flag is
\* set; on failure the call throws and the backend is unchanged
toggleKeyEnabled(w, u, enabled, ok) ==
  LET logged == Log(w, Event("toggle", u, enabled, ok, 0))
  IN  IF ok THEN [logged EXCEPT !.keyEnabled[u] = enabled] ELSE logged

----------------------------------------------------------------------------
(* The daily reactivation sweep *)

\* A selection that leaves out the isBanned filter
SweepSelected_IncludesBanned(us) == {u \in Users : us[u].cchKeyId # Null}

\* The users findMany selects: isBanned = false and cchKeyId not null
SweepSelected(us) == {u \in Users : ~us[u].isBanned /\ us[u].cchKeyId # Null}

\* A task that updates the row although the re-enable call threw
SweepUser_IgnoresFailure(w, u, latestRefreshAt, out) ==
  IF ~HasKeyId(w.users[u]) THEN w
  ELSE
    LET used == getKeyQuotaUsage(u, out.usageOk)
        w1 == Log(w, Event("getUsage", u, FALSE, out.usageOk, used))
        w2 == toggleKeyEnabled(w1, u, TRUE, out.toggleOk)
    IN  Log([w2 EXCEPT !.users[u].lastKnownUsage = used,
                       !.users[u].quotaWindowStartAt = latestRefreshAt,
                       !.users[u].quotaWindowBaseUsage = used,
                       !.users[u].keyAutoDisabled = FALSE,
                       !.users[u].autoDisabledAt = Null],
            Event("writeReset", u, w.users[u].keyAutoDisabled, TRUE,
                  latestRefreshAt))

\* A task that re-enables the key and resets the window but leaves the flag
SweepUser_KeepsFlag(w, u, latestRefreshAt, out) ==
  IF ~HasKeyId(w.users[u]) THEN w
  ELSE
    LET used == getKeyQuotaUsage(u, out.usageOk)
        w1 == Log(w, Event("getUsage", u, FALSE, out.usageOk, used))
        w2 == toggleKeyEnabled(w1, u, TRUE, out.toggleOk)
    IN  IF ~out.toggleOk THEN w2
        ELSE Log([w2 EXCEPT !.users[u].lastKnownUsage = used,
                            !.users[u].quotaWindowStartAt = latestRefreshAt,
                            !.users[u].quotaWindowBaseUsage = used],
                 Event("writeReset", u, w.users[u].keyAutoDisabled, TRUE,
                       latestRefreshAt))

\* One task of the Promise.all: usage, toggle, row update; any throw is caught
SweepUser(w, u, latestRefreshAt, out) ==
  IF ~HasKeyId(w.users[u]) THEN w
  ELSE
    LET used == getKeyQuotaUsage(u, out.usageOk)
        w1 == Log(w, Event("getUsage", u, FALSE, out.usageOk, used))
        w2 == toggleKeyEnabled(w1, u, TRUE, out.toggleOk)
    IN  IF ~out.toggleOk THEN w2
        ELSE Log([w2 EXCEPT !.users[u].lastKnownUsage = used,
                            !.users[u].quotaWindowStartAt = latestRefreshAt,
                            !.users[u].quotaWindowBaseUsage = used,
                            !.users[u].keyAutoDisabled = FALSE,
                            !.users[u].autoDisabledAt = Null],
                 Event("writeReset", u, w.users[u].keyAutoDisabled, TRUE,
                       latestRefreshAt))

\* A batch that stops at the first task whose re-enable call threw
RECURSIVE SweepBatch_StopsAtFailure(_, _, _, _, _)
SweepBatch_StopsAtFailure(w, order, selected, latestRefreshAt, outs) ==
  IF order = <<>> THEN w
  ELSE LET u == Head(order)
           w1 == IF u \in selected
                 THEN SweepUser(w, u, latestRefreshAt, outs[u]) ELSE w
       IN  IF u \in selected /\ HasKeyId(w.users[u]) /\ ~outs[u].toggleOk THEN w1
           ELSE SweepBatch_StopsAtFailure(w1, Tail(order), selected,
                                          latestRefreshAt, outs)

\* The tasks of the selected users, applied in the order of the selection (they
\* touch disjoint rows and keys, so the order among them does not matter)
RECURSIVE SweepBatch(_, _, _, _, _)
SweepBatch(w, order, selected, latestRefreshAt, outs) ==
  IF order = <<>> THEN w
  ELSE LET u == Head(order)
           w1 == IF u \in selected
                 THEN SweepUser(w, u, latestRefreshAt, outs[u]) ELSE w
       IN  SweepBatch(w1, Tail(order), selected, latestRefreshAt, outs)

\* An early-return test that needs a strictly later stamp
SweepUpToDate_Strict(state, latestRefreshAt) ==
  /\ state.lastDailyReactivateAt # Null
  /\ state.lastDailyReactivateAt > latestRefreshAt

\* Whether ensureDailyQuotaRefresh returns early
SweepUpToDate(state, latestRefreshAt) ==
  /\ state.lastDailyReactivateAt # Null
  /\ state.lastDailyReactivateAt >= latestRefreshAt

\* A sweep that stamps the instant of the call instead of the boundary
ensureDailyQuotaRefresh_StampsNow(w, date, config, outs) ==
  LET latestRefreshAt == getLatestDailyReactivateAt(
          date, config.dailyReactivateHourBjt, config.dailyReactivateMinuteBjt)
      state == getOrCreateSystemState(w.sys)
      w0 == [w EXCEPT !.sys = state]
  IN  IF SweepUpToDate(state, latestRefreshAt) THEN w0
      ELSE
        LET w1 == SweepBatch(w0, UserOrder, SweepSelected(w0.users),
                             latestRefreshAt, outs)
        IN  Log([w1 EXCEPT !.sys.lastDailyReactivateAt = date],
                Event("writeLast", 0, FALSE, TRUE, date))

\* ensureDailyQuotaRefresh(now, config), from the read of SystemState on
ensureDailyQuotaRefresh(w, date, config, outs) ==
  LET latestRefreshAt == getLatestDailyReactivateAt(
          date, config.dailyReactivateHourBjt, config.dailyReactivateMinuteBjt)
      state == getOrCreateSystemState(w.sys)
      w0 == [w EXCEPT !.sys = state]
  IN  IF SweepUpToDate(state, latestRefreshAt) THEN w0
      ELSE
        LET w1 == SweepBatch(w0, UserOrder, SweepSelected(w0.users),
                             latestRefreshAt, outs)
        IN  Log([w1 EXCEPT !.sys.lastDailyReactivateAt = latestRefreshAt],
                Event("writeLast", 0, FALSE, TRUE, latestRefreshAt))

----------------------------------------------------------------------------
(* The evaluator, from the re-read of the user's row on *)

\* A stale-window branch that resets the window but leaves the flag as it was
EvalStaleWindow_KeepsFlag(w, u, latestRefreshAt, used, enableOk) ==
  LET w1 == toggleKeyEnabled(w, u, TRUE, enableOk)
  IN  Log([w1 EXCEPT !.users[u].quotaWindowStartAt = latestRefreshAt,
                     !.users[u].quotaWindowBaseUsage = used],
          Event("writeReset", u, w.users[u].keyAutoDisabled, TRUE, latestRefreshAt))

\* The part of evaluateUserKeyPolicy that runs when the quota window is older
\* than the latest boundary: re-enable (a failure is caught), then reset the window
EvalStaleWindow(w, u, latestRefreshAt, used, enableOk) ==
  LET w1 == toggleKeyEnabled(w, u, TRUE, enableOk)
  IN  Log([w1 EXCEPT !.users[u].quotaWindowStartAt = latestRefreshAt,
                     !.users[u].quotaWindowBaseUsage = used,
                     !.users[u].keyAutoDisabled = FALSE,
                     !.users[u].autoDisabledAt = Null],
          Event("writeReset", u, w.users[u].keyAutoDisabled, TRUE, latestRefreshAt))

\* A disable branch that sets the flag although the call threw
EvalDisable_MarksOnFailure(w, u, date, disableOk) ==
  LET w1 == toggleKeyEnabled(w, u, FALSE, disableOk)
  IN  Log([w1 EXCEPT !.users[u].keyAutoDisabled = TRUE,
                     !.users[u].autoDisabledAt = date,
                     !.keyStatus = "quota_exhausted"],
          Event("writeDisable", u, TRUE, TRUE, date))

\* The part that disables the key when the quota is used up; a failed call is caught
EvalDisable(w, u, date, disableOk) ==
  LET w1 == toggleKeyEnabled(w, u, FALSE, disableOk)
  IN  IF ~disableOk THEN [w1 EXCEPT !.keyStatus = "active"]
      ELSE Log([w1 EXCEPT !.users[u].keyAutoDisabled = TRUE,
                          !.users[u].autoDisabledAt = date,
                          !.keyStatus = "quota_exhausted"],
               Event("writeDisable", u, TRUE, TRUE, date))

\* A usage test that always asks for the write
usageChanged_Always(used, lastKnownUsage) == TRUE

\* used !== currentUser.lastKnownUsage
usageChanged(used, lastKnownUsage) == used # lastKnownUsage

\* A staleness test that also takes a window starting on the boundary as old
EvalStale_Inclusive(row, latestRefreshAt) ==
  (IF row.quotaWindowStartAt = Null THEN latestRefreshAt ELSE row.quotaWindowStartAt)
     <= latestRefreshAt

\* Whether the evaluator finds the user's quota window older than the boundary
\* (a null quotaWindowStartAt reads as the boundary itself)
EvalStale(row, latestRefreshAt) ==
  (IF row.quotaWindowStartAt = Null THEN latestRefreshAt ELSE row.quotaWindowStartAt)
     < latestRefreshAt

\* todayUsed without the floor at 0
EvalTodayUsed_NoFloor(row, latestRefreshAt, used) ==
  used - (IF EvalStale(row, latestRefreshAt) THEN used ELSE row.quotaWindowBaseUsage)

\* todayUsed as the evaluator computes it from the row it read and the usage it got
EvalTodayUsed(row, latestRefreshAt, used) ==
  Max2(0, used - (IF EvalStale(row, latestRefreshAt) THEN used
                  ELSE row.quotaWindowBaseUsage))

\* A disable decision that needs the usage to be strictly above the limit
EvalExhausted_Strict(row, latestRefreshAt, used, policyConfig) ==
  /\ ~(IF EvalStale(row, latestRefreshAt) THEN FALSE ELSE row.keyAutoDisabled)
  /\ ~row.isBanned
  /\ EvalTodayUsed(row, latestRefreshAt, used) > policyConfig.dailyQuotaLimit

\* Whether the evaluator decides to disable the key
EvalExhausted(row, latestRefreshAt, used, policyConfig) ==
  /\ ~(IF EvalStale(row, latestRefreshAt) THEN FALSE ELSE row.keyAutoDisabled)
  /\ ~row.isBanned
  /\ EvalTodayUsed(row, latestRefreshAt, used) >= policyConfig.dailyQuotaLimit

\* evaluateUserKeyPolicy from `let usage` to its return, deciding on currentUser
evaluateCurrentUser(w, u, currentUser, date, policyConfig, out) ==
  IF ~HasKeyId(currentUser)
  THEN [w EXCEPT !.keyStatus =
          IF currentUser.keyAutoDisabled THEN "quota_exhausted" ELSE "active"]
  ELSE
    LET used == getKeyQuotaUsage(u, out.usageOk)
        w1 == Log(w, Event("getUsage", u, FALSE, out.usageOk, used))
        w2 == IF usageChanged(used, currentUser.lastKnownUsage)
              THEN Log([w1 EXCEPT !.users[u].lastKnownUsage = used],
                       Event("writeUsage", u, FALSE, TRUE, used))
              ELSE w1
        latestRefreshAt == getLatestDailyReactivateAt(
            date, policyConfig.dailyReactivateHourBjt,
            policyConfig.dailyReactivateMinuteBjt)
        stale == EvalStale(currentUser, latestRefreshAt)
        w3 == IF stale
              THEN EvalStaleWindow(w2, u, latestRefreshAt, used, out.enableOk)
              ELSE w2
        keyAutoDisabled == IF stale THEN FALSE ELSE currentUser.keyAutoDisabled
    IN  IF EvalExhausted(currentUser, latestRefreshAt, used, policyConfig)
        THEN EvalDisable(w3, u, date, out.disableOk)
        ELSE [w3 EXCEPT !.keyStatus =
                IF keyAutoDisabled THEN "quota_exhausted" ELSE "active"]

\* An evaluator that decides on the row its caller passed in
evaluateUserKeyPolicy_TrustsCaller(w, user, u, date, policyConfig, out) ==
  evaluateCurrentUser(w, u, user, date, policyConfig, out)

\* evaluateUserKeyPolicy(user, now) after its sweep step: the row of user.id is
\* read again and currentUser is that row; the caller's `user` is used only
\* when no such row exists
evaluateUserKeyPolicy(w, user, u, date, policyConfig, out) ==
  evaluateCurrentUser(w, u, IF u \in DOMAIN w.users THEN w.users[u] ELSE user,
                      date, policyConfig, out)

----------------------------------------------------------------------------
(* The admin ban and unban handlers *)

\* POST /api/admin/users/[id]/ban: disable the backend user and key, then set
\* isBanned; a failed adapter call aborts the handler before the write
banUser(w, u, out) ==
  IF ~HasKeyId(w.users[u])
  THEN Log([w EXCEPT !.users[u].isBanned = TRUE], Event("writeBan", u, TRUE, TRUE, 0))
  ELSE IF ~out.userOk THEN Log(w, Event("toggleUser", u, FALSE, FALSE, 0))
  ELSE LET w1 == toggleKeyEnabled(Log(w, Event("toggleUser", u, FALSE, TRUE, 0)),
                                  u, FALSE, out.keyOk)
       IN  IF ~out.keyOk THEN w1
           ELSE Log([w1 EXCEPT !.users[u].isBanned = TRUE],
                    Event("writeBan", u, TRUE, TRUE, 0))

\* DELETE /api/admin/users/[id]/ban: enable the backend user and key, then clear isBanned
unbanUser(w, u, out) ==
  IF ~HasKeyId(w.users[u])
  THEN Log([w EXCEPT !.users[u].isBanned = FALSE], Event("writeBan", u, FALSE, TRUE, 0))
  ELSE IF ~out.userOk THEN Log(w, Event("toggleUser", u, TRUE, FALSE, 0))
  ELSE LET w1 == toggleKeyEnabled(Log(w, Event("toggleUser", u, TRUE, TRUE, 0)),
                                  u, TRUE, out.keyOk)
       IN  IF ~out.keyOk THEN w1
           ELSE Log([w1 EXCEPT !.users[u].isBanned = FALSE],
                    Event("writeBan", u, FALSE, TRUE, 0))

----------------------------------------------------------------------------
(* The state machine *)

T0 == DAY_MS                   \* the instant the users were created (day 1, 08:00 +08:00)

\* The instants the clock takes: T0, which is 08:00 (+08:00) of day 1, then
\* 20:05 of day 1, 20:05 of day 2, and so on
ClockAt(k) ==
  IF k = 0 THEN T0 ELSE T0 + 12 * HOUR_MS + 5 * MINUTE_MS + (k - 1) * DAY_MS
ClockTimes == {ClockAt(k) : k \in 0..MaxTicks}

\* The inputs of updateKeyPolicyConfig that the model draws
ConfigInputs ==
  {[dailyQuotaLimit |-> 1, dailyReactivateHourBjt |-> 20, dailyReactivateMinuteBjt |-> 0]}

SweepOutcomes == [Users -> [usageOk : BOOLEAN, toggleOk : BOOLEAN]]
EvalOutcomes == [usageOk : BOOLEAN, enableOk : BOOLEAN, disableOk : BOOLEAN]
BanOutcomes == [userOk : BOOLEAN, keyOk : BOOLEAN]

NoConfig ==
  [dailyQuotaLimit |-> 0, dailyReactivateHourBjt |-> 0, dailyReactivateMinuteBjt |-> 0]

\* No evaluation is between its sweep step and its user step
NoEvalRunning == \A u \in Users : req[u] # "swept"

\* The record of a step: its kind, the user it is for (0: none) and the key
\* status it returned ("none": none).  A sweep call also records the
\* lastDailyReactivateAt it read and, when it follows a sweep call with the
\* same boundary and the same config, the instant of that call; an
\* evaluation records whether the user's re-enable call failed in its sweep;
\* a login records where the OAuth callback redirected to ("none": no login).
Op(kind, u, status) ==
  [kind |-> kind, user |-> u, keyStatus |-> status, lastBefore |-> Null,
   repeatOf |-> Null, afterFailed |-> FALSE, outcome |-> "none"]

\* What prevSweep holds: the instant, the boundary and the config of the sweep
\* call that was the last operation of the program, or NoSweep when the last
\* one was no sweep
SweepRecord(at, latest, config) ==
  [at |-> at, latest |-> latest, config |-> config]
NoSweep == [at |-> Null, latest |-> Null, config |-> NoConfig]

IdleCalc == [date |-> 0, hour |-> 0, minute |-> 0, latest |-> 0, next |-> 0, done |-> TRUE]

\* The users exist from the start, created at T0; user 1 has a remote key, the
\* others have one or not
Init ==
  /\ now = T0
  /\ sys = NoSystemState
  /\ users \in [Users -> {KeylessUserRow} \cup {NewUserRow(u, T0) : u \in Users}]
  /\ users[1] = NewUserRow(1, T0)
  /\ \A u \in Users : users[u] = KeylessUserRow \/ users[u] = NewUserRow(u, T0)
  /\ keyEnabled = [u \in Users |-> HasKeyId(users[u])]
  /\ backendUsed = [u \in Users |-> 0]
  /\ req = [u \in Users |-> "idle"]
  /\ step = Op("init", 0, "none")
  /\ trace = <<>>
  /\ prevSweep = NoSweep
  /\ calc = IdleCalc

\* Time passes
Tick ==
  /\ NoEvalRunning
  /\ \E t \in ClockTimes : t > now /\ now' = t
  /\ step' = Op("tick", 0, "none")
  /\ trace' = <<>>
  /\ UNCHANGED <<sys, users, keyEnabled, backendUsed, req, prevSweep, calc>>

\* The holder of an enabled key consumes quota at the backend
UseKey(u) ==
  /\ NoEvalRunning
  /\ HasKeyId(users[u])
  /\ keyEnabled[u]
  /\ backendUsed[u] < MaxUsage
  /\ backendUsed' = [backendUsed EXCEPT ![u] = @ + 1]
  /\ step' = Op("use", u, "none")
  /\ trace' = <<>>
  /\ UNCHANGED <<now, sys, users, keyEnabled, req, prevSweep, calc>>

\* The config getKeyPolicyConfig() returns in the current state
CurrentConfig == normalizePolicyConfig(getKeyPolicyConfig(sys))

\* The boundary a sweep called now computes
CurrentLatest ==
  getLatestDailyReactivateAt(now, CurrentConfig.dailyReactivateHourBjt,
                             CurrentConfig.dailyReactivateMinuteBjt)

\* The record of a sweep call made now for u's evaluation (0: for the callback)
SweepOp(u) ==
  [kind |-> "sweep", user |-> u, keyStatus |-> "none",
   lastBefore |-> getOrCreateSystemState(sys).lastDailyReactivateAt,
   repeatOf |-> IF prevSweep.latest = CurrentLatest /\ prevSweep.config = CurrentConfig
                THEN prevSweep.at ELSE Null,
   afterFailed |-> FALSE, outcome |-> "none"]

\* The record of the user step of u's evaluation, which follows its sweep step
EvalOp(u, status) ==
  [kind |-> "eval", user |-> u, keyStatus |-> status, lastBefore |-> Null,
   repeatOf |-> Null,
   afterFailed |-> \E i \in DOMAIN trace :
                     trace[i].ev = "toggle" /\ trace[i].user = u /\ ~trace[i].ok,
   outcome |-> "none"]

\* The state after `getKeyPolicyConfig()` followed by
\* `ensureDailyQuotaRefresh(date, config)` with the config it returned
RefreshWith(date, outs) ==
  LET s1 == getKeyPolicyConfig(sys)
  IN  ensureDailyQuotaRefresh(World(s1, users, keyEnabled), date,
                              normalizePolicyConfig(s1), outs)

AllOk == [usageOk |-> TRUE, toggleOk |-> TRUE]

\* The outcomes of the adapter calls a sweep called now makes: one pair per
\* selected user when the sweep is due (no call is made for the others)
SweepCalls ==
  {outs \in SweepOutcomes :
     \A u \in Users :
       \/ outs[u] = AllOk
       \/ /\ ~SweepUpToDate(getOrCreateSystemState(sys), CurrentLatest)
          /\ u \in SweepSelected(users)}

\* GET /api/auth/callback of a visitor who is turned away after
\* `await ensureDailyQuotaRefresh()` (trust level, restricted account, failed
\* code exchange): the sweep is all it does to the tables and the backend
CallbackRefresh(outs) ==
  \E w \in {RefreshWith(now, outs)} :
      /\ NoEvalRunning
      /\ sys' = w.sys
      /\ users' = w.users
      /\ keyEnabled' = w.keyEnabled
      /\ trace' = w.trace
      /\ step' = SweepOp(0)
      /\ prevSweep' = SweepRecord(now, CurrentLatest, CurrentConfig)
      /\ UNCHANGED <<now, backendUsed, req, calc>>

\* The redirect of the OAuth callback for a user found in the table: a banned
\* user is sent back with error=banned, any other user to the dashboard
loginOutcome(row) == IF row.isBanned THEN "banned" ELSE "dashboard"

\* GET /api/auth/callback of the returning user u: the sweep, then the lookup
\* of the user, the isBanned test and the update of the profile and of
\* lastLoginAt / lastActivityAt (columns the policy code of this version never
\* reads); no adapter call is made for the user outside the sweep
CallbackLogin(u, outs) ==
  \E w \in {RefreshWith(now, outs)} :
      /\ NoEvalRunning
      /\ sys' = w.sys
      /\ users' = w.users
      /\ keyEnabled' = w.keyEnabled
      /\ trace' = w.trace
      /\ step' = [SweepOp(u) EXCEPT !.outcome = loginOutcome(w.users[u])]
      /\ prevSweep' = SweepRecord(now, CurrentLatest, CurrentConfig)
      /\ UNCHANGED <<now, backendUsed, req, calc>>

\* GET /api/user/key, up to the call of evaluateUserKeyPolicy: the session's
\* user is read, and a banned user is answered 403 without an evaluation
RouteRead(u) ==
  /\ NoEvalRunning
  /\ req[u] = "idle"
  /\ req' = IF users[u].isBanned THEN req ELSE [req EXCEPT ![u] = "read"]
  /\ step' = Op("routeRead", u, "none")
  /\ trace' = <<>>
  /\ prevSweep' = NoSweep
  /\ UNCHANGED <<now, sys, users, keyEnabled, backendUsed, calc>>

\* evaluateUserKeyPolicy(user, now = new Date()), up to the return of
\* `await ensureDailyQuotaRefresh(now, policyConfig)`
EvalRefresh(u, outs) ==
  \E w \in {RefreshWith(now, outs)} :
      /\ NoEvalRunning
      /\ req[u] = "read"
      /\ req' = [req EXCEPT ![u] = "swept"]
      /\ sys' = w.sys
      /\ users' = w.users
      /\ keyEnabled' = w.keyEnabled
      /\ trace' = w.trace
      /\ step' = SweepOp(u)
      /\ prevSweep' = SweepRecord(now, CurrentLatest, CurrentConfig)
      /\ UNCHANGED <<now, backendUsed, calc>>

\* The rows GET /api/user/key may have read before it called
\* evaluateUserKeyPolicy: the row as it is now or as it was earlier, with
\* another flag or counter, and never a banned one (the route answers 403)
CallerSnapshots(u) ==
  {[users[u] EXCEPT !.isBanned = FALSE, !.keyAutoDisabled = flag,
                    !.lastKnownUsage = used] :
     flag \in BOOLEAN, used \in {0, users[u].lastKnownUsage}}

\* The outcomes of the adapter calls the evaluation of u makes now: the usage
\* request when u has a key, the re-enable call when the window is stale, the
\* disable call when the quota is used up (no call is made otherwise)
EvalCalls(u) ==
  {out \in EvalOutcomes :
     /\ out.usageOk \/ HasKeyId(users[u])
     /\ out.enableOk \/ (HasKeyId(users[u]) /\ EvalStale(users[u], CurrentLatest))
     /\ out.disableOk \/
          /\ HasKeyId(users[u])
          /\ EvalExhausted(users[u], CurrentLatest,
                           getKeyQuotaUsage(u, out.usageOk), CurrentConfig)}

\* The outcomes of the adapter calls a ban or an unban of u makes: the user
\* call, and the key call when the user call succeeded
BanCalls(u) ==
  {out \in BanOutcomes :
     /\ out.userOk \/ HasKeyId(users[u])
     /\ out.keyOk \/ (HasKeyId(users[u]) /\ out.userOk)}

\* evaluateUserKeyPolicy from the re-read of the user's row to its return, with
\* the instant and the config of its sweep step (nothing runs between the two)
EvalUser(u, out) ==
  \E user \in CallerSnapshots(u) :
  \E w \in {evaluateUserKeyPolicy(World(sys, users, keyEnabled), user, u, now,
                                  CurrentConfig, out)} :
      /\ req[u] = "swept"
      /\ req' = [req EXCEPT ![u] = "idle"]
      /\ sys' = w.sys
      /\ users' = w.users
      /\ keyEnabled' = w.keyEnabled
      /\ trace' = w.trace
      /\ step' = EvalOp(u, w.keyStatus)
      /\ prevSweep' = NoSweep
      /\ UNCHANGED <<now, backendUsed, calc>>

Ban(u, out) ==
  \E w \in {banUser(World(sys, users, keyEnabled), u, out)} :
      /\ NoEvalRunning
      /\ users' = w.users
      /\ keyEnabled' = w.keyEnabled
      /\ trace' = w.trace
      /\ step' = Op("ban", u, "none")
      /\ prevSweep' = NoSweep
      /\ UNCHANGED <<now, sys, backendUsed, req, calc>>

Unban(u, out) ==
  \E w \in {unbanUser(World(sys, users, keyEnabled), u, out)} :
      /\ NoEvalRunning
      /\ users' = w.users
      /\ keyEnabled' = w.keyEnabled
      /\ trace' = w.trace
      /\ step' = Op("unban", u, "none")
      /\ prevSweep' = NoSweep
      /\ UNCHANGED <<now, sys, backendUsed, req, calc>>

\* updateKeyPolicyConfig(input)
UpdateConfig(input) ==
  /\ NoEvalRunning
  /\ sys' = updateKeyPolicyConfig(sys, input)
  /\ trace' = <<>>
  /\ step' = Op("updateConfig", 0, "none")
  /\ prevSweep' = prevSweep
  /\ UNCHANGED <<now, users, keyEnabled, backendUsed, req, calc>>

Next ==
  \/ Tick
  \/ \E u \in ActiveUsers : UseKey(u)
  \/ \E outs \in SweepCalls : CallbackRefresh(outs)
  \/ \E u \in ActiveUsers : \E outs \in SweepCalls : CallbackLogin(u, outs)
  \/ \E u \in ActiveUsers : RouteRead(u)
  \/ \E u \in ActiveUsers, outs \in SweepCalls : EvalRefresh(u, outs)
  \/ \E u \in ActiveUsers : \E out \in EvalCalls(u) : EvalUser(u, out)
  \/ \E u \in ActiveUsers : \E out \in BanCalls(u) : Ban(u, out)
  \/ \E u \in ActiveUsers : \E out \in BanCalls(u) : Unban(u, out)
  \/ \E input \in ConfigInputs : UpdateConfig(input)

Spec == Init /\ [][Next]_vars

TypeOK ==
  /\ now \in ClockTimes
  /\ sys.exists \in BOOLEAN
  /\ \A u \in Users : backendUsed[u] \in 0..MaxUsage

----------------------------------------------------------------------------
(* The boundary functions on their own: SpecBoundary draws an instant and a  *)
(* configured time of day, and applies the two functions to them             *)

MaxCalcDay == 2      \* the instants drawn lie in the days 1..MaxCalcDay after the epoch

CalcHours == {0, 7, 8, 15, 16, MAX_HOUR}
CalcMinutes == {0, 30, MAX_MINUTE}

\* The instants drawn: every hour of the day at minutes 0, 5, 30, 55 and 59,
\* one millisecond before, on and one millisecond after
CalcDates ==
  {d * DAY_MS + h * HOUR_MS + m * MINUTE_MS + e :
     d \in 1..MaxCalcDay, h \in 0..MAX_HOUR, m \in {0, 5, 30, 55, MAX_MINUTE},
     e \in {-1, 0, 1}}

InitBoundary ==
  /\ now = T0
  /\ sys = NoSystemState
  /\ users = [u \in Users |-> NewUserRow(u, T0)]
  /\ keyEnabled = [u \in Users |-> TRUE]
  /\ backendUsed = [u \in Users |-> 0]
  /\ req = [u \in Users |-> "idle"]
  /\ step = Op("init", 0, "none")
  /\ trace = <<>>
  /\ prevSweep = NoSweep
  /\ calc \in [date : CalcDates, hour : CalcHours, minute : CalcMinutes,
               latest : {0}, next : {0}, done : {FALSE}]

ComputeBoundary ==
  /\ ~calc.done
  /\ calc' = [calc EXCEPT
       !.latest = getLatestDailyReactivateAt(calc.date, calc.hour, calc.minute),
       !.next = getNextDailyReactivateAt(calc.date, calc.hour, calc.minute),
       !.done = TRUE]
  /\ UNCHANGED <<now, sys, users, keyEnabled, backendUsed, req, step, trace, prevSweep>>

NextBoundary == ComputeBoundary

SpecBoundary == InitBoundary /\ [][NextBoundary]_vars

----------------------------------------------------------------------------
(* The inactivity-based variant of the policy (variant A of the design): its  *)
(* evaluator and sweep are not among the source files, only their callers     *)
(* are; they are written here from the design document, over the adapter of   *)
(* the source.  SpecInactivity draws a user, a threshold and the instants of  *)
(* the user's activity, and runs one evaluation: the sweep, then the user.    *)

MIN_INACTIVITY_HOURS == 1
MAX_INACTIVITY_HOURS == 168

\* The instant of the evaluation: 09:00 (+08:00) of day 10
NowA == 10 * DAY_MS + HOUR_MS

\* The row of a user in variant A
InactivityUserRow(keyId, banned, created, login, activity, usage, disabled) ==
  [cchKeyId |-> keyId, isBanned |-> banned, createdAt |-> created,
   lastLoginAt |-> login, lastActivityAt |-> activity, lastKnownUsage |-> usage,
   keyAutoDisabled |-> disabled,
   autoDisabledAt |-> IF disabled THEN NowA - HOUR_MS ELSE Null]

\* The config of variant A with threshold h, and the stamp of the last sweep
InactivityState(h, last) ==
  [exists |-> TRUE, inactivityHours |-> h,
   dailyReactivateHourBjt |-> DEFAULT_DAILY_REACTIVATE_HOUR_BJT,
   dailyReactivateMinuteBjt |-> DEFAULT_DAILY_REACTIVATE_MINUTE_BJT,
   lastDailyReactivateAt |-> last]

\* effectiveLastActivity = lastActivityAt ?? lastLoginAt ?? createdAt
effectiveLastActivity(row) ==
  IF row.lastActivityAt # Null THEN row.lastActivityAt
  ELSE IF row.lastLoginAt # Null THEN row.lastLoginAt
  ELSE row.createdAt

\* The sweep of variant A for one user: re-enable, and clear the flag on success
InactivitySweepUser(w, u, ok) ==
  LET w1 == toggleKeyEnabled(w, u, TRUE, ok)
  IN  IF ~ok THEN w1
      ELSE Log([w1 EXCEPT !.users[u].keyAutoDisabled = FALSE,
                          !.users[u].autoDisabledAt = Null],
               Event("writeReset", u, w.users[u].keyAutoDisabled, TRUE, 0))

RECURSIVE InactivitySweepBatch(_, _, _)
InactivitySweepBatch(w, order, outs) ==
  IF order = <<>> THEN w
  ELSE LET u == Head(order)
           w1 == IF ~w.users[u].isBanned /\ w.users[u].cchKeyId # Null
                 THEN InactivitySweepUser(w, u, outs[u].toggleOk) ELSE w
       IN  InactivitySweepBatch(w1, Tail(order), outs)

\* The sweep of variant A: it runs when the stamp is null or older than the
\* latest boundary, and stamps the boundary after the batch
inactivitySweep(w, date, outs) ==
  LET latest == getLatestDailyReactivateAt(
          date, w.sys.dailyReactivateHourBjt, w.sys.dailyReactivateMinuteBjt)
  IN  IF w.sys.lastDailyReactivateAt # Null /\ w.sys.lastDailyReactivateAt >= latest
      THEN w
      ELSE Log([InactivitySweepBatch(w, UserOrder, outs)
                  EXCEPT !.sys.lastDailyReactivateAt = latest],
               Event("writeLast", 0, FALSE, TRUE, latest))

\* Step 4 of the evaluator of variant A: a usage counter above lastKnownUsage
\* is activity at `date`; a counter that differs otherwise is only stored
InactivityObserve(w, u, date, used) ==
  IF used > w.users[u].lastKnownUsage
  THEN Log([w EXCEPT !.users[u].lastKnownUsage = used,
                     !.users[u].lastActivityAt = date],
           Event("writeActivity", u, FALSE, TRUE, used))
  ELSE IF used # w.users[u].lastKnownUsage
  THEN Log([w EXCEPT !.users[u].lastKnownUsage = used],
           Event("writeUsage", u, FALSE, TRUE, used))
  ELSE w

\* A threshold test that needs strictly more than the threshold
InactivityElapsed_Strict(row, date, hours) ==
  date - effectiveLastActivity(row) > hours * HOUR_MS

\* Step 6 of the evaluator of variant A: the threshold is reached
InactivityElapsed(row, date, hours) ==
  date - effectiveLastActivity(row) >= hours * HOUR_MS

\* An evaluator that stores the new counter but does not count it as activity
evaluateInactivity_NoBump(w, u, date, usageOk) ==
  IF ~HasKeyId(w.users[u]) THEN [w EXCEPT !.keyStatus = "active"]
  ELSE
    LET used == getKeyQuotaUsage(u, usageOk)
        w1 == Log(w, Event("getUsage", u, FALSE, usageOk, used))
        w2 == IF used # w1.users[u].lastKnownUsage
              THEN Log([w1 EXCEPT !.users[u].lastKnownUsage = used],
                       Event("writeUsage", u, FALSE, TRUE, used))
              ELSE w1
        row == w2.users[u]
    IN  IF /\ ~row.keyAutoDisabled /\ ~row.isBanned
           /\ InactivityElapsed(row, date, w2.sys.inactivityHours)
        THEN LET w3 == toggleKeyEnabled(w2, u, FALSE, TRUE)
             IN  Log([w3 EXCEPT !.users[u].keyAutoDisabled = TRUE,
                                !.users[u].autoDisabledAt = date,
                                !.keyStatus = "disabled"],
                     Event("writeDisable", u, TRUE, TRUE, date))
        ELSE [w2 EXCEPT !.keyStatus =
                IF row.keyAutoDisabled THEN "disabled" ELSE "active"]

\* Steps 2 to 7 of the evaluator of variant A, on the row as it is read
evaluateInactivity(w, u, date, usageOk) ==
  IF ~HasKeyId(w.users[u]) THEN [w EXCEPT !.keyStatus = "active"]
  ELSE
    LET used == getKeyQuotaUsage(u, usageOk)
        w1 == Log(w, Event("getUsage", u, FALSE, usageOk, used))
        w2 == InactivityObserve(w1, u, date, used)
        row == w2.users[u]
    IN  IF /\ ~row.keyAutoDisabled /\ ~row.isBanned
           /\ InactivityElapsed(row, date, w2.sys.inactivityHours)
        THEN LET w3 == toggleKeyEnabled(w2, u, FALSE, TRUE)
             IN  Log([w3 EXCEPT !.users[u].keyAutoDisabled = TRUE,
                                !.users[u].autoDisabledAt = date,
                                !.keyStatus = "disabled"],
                     Event("writeDisable", u, TRUE, TRUE, date))
        ELSE [w2 EXCEPT !.keyStatus =
                IF row.keyAutoDisabled THEN "disabled" ELSE "active"]

\* The thresholds drawn, in hours
InactivityHours == {MIN_INACTIVITY_HOURS, 5, MAX_INACTIVITY_HOURS}

\* The instants drawn for a timestamp of the user, for threshold h: exactly h
\* hours before the evaluation, one millisecond less, one minute more
ActivityInstants(h) ==
  {NowA - h * HOUR_MS, NowA - h * HOUR_MS + 1, NowA - h * HOUR_MS - MINUTE_MS}

InitInactivity ==
  /\ now = NowA
  /\ \E h \in InactivityHours :
       /\ \E last \in {Null, getLatestDailyReactivateAt(
                                NowA, DEFAULT_DAILY_REACTIVATE_HOUR_BJT,
                                DEFAULT_DAILY_REACTIVATE_MINUTE_BJT)} :
            sys = InactivityState(h, last)
       /\ \E keyId \in {Null, KeyIdOf(1)}, banned \in BOOLEAN, disabled \in BOOLEAN,
             usage \in 0..MaxUsage,
             created \in {NowA - h * HOUR_MS, NowA - h * HOUR_MS + 1},
             login \in {Null, NowA - h * HOUR_MS, NowA - h * HOUR_MS + 1},
             activity \in {Null} \cup ActivityInstants(h) :
            /\ users = [u \in Users |->
                 IF u = 1
                 THEN InactivityUserRow(keyId, banned, created, login, activity,
                                        usage, disabled)
                 ELSE InactivityUserRow(KeyIdOf(u), FALSE, NowA, NowA, NowA, 0, FALSE)]
            /\ keyEnabled = [u \in Users |->
                 IF u = 1 THEN keyId # Null /\ ~banned /\ ~disabled ELSE TRUE]
  /\ backendUsed \in [Users -> 0..MaxUsage]
  /\ backendUsed[2] = 0
  /\ req = [u \in Users |-> IF u = 1 THEN "read" ELSE "idle"]
  /\ step = Op("init", 0, "none")
  /\ trace = <<>>
  /\ prevSweep = NoSweep
  /\ calc = IdleCalc

\* Step 1 of the evaluation of user u: the sweep's catch-up check
InactivitySweepStep(u, outs) ==
  \E w \in {inactivitySweep(World(sys, users, keyEnabled), now, outs)} :
      /\ req[u] = "read"
      /\ req' = [req EXCEPT ![u] = "swept"]
      /\ sys' = w.sys
      /\ users' = w.users
      /\ keyEnabled' = w.keyEnabled
      /\ trace' = w.trace
      /\ step' = Op("sweep", u, "none")
      /\ UNCHANGED <<now, backendUsed, prevSweep, calc>>

\* Steps 2 to 7 of the evaluation of user u
InactivityEvalStep(u, usageOk) ==
  \E w \in {evaluateInactivity(World(sys, users, keyEnabled), u, now, usageOk)} :
      /\ req[u] = "swept"
      /\ req' = [req EXCEPT ![u] = "idle"]
      /\ sys' = w.sys
      /\ users' = w.users
      /\ keyEnabled' = w.keyEnabled
      /\ trace' = w.trace
      /\ step' = Op("eval", u, w.keyStatus)
      /\ UNCHANGED <<now, backendUsed, prevSweep, calc>>

\* The outcomes of the re-enable calls of a sweep: one per user
InactivitySweepOutcomes == [Users -> [toggleOk : BOOLEAN]]

NextInactivity ==
  \/ \E u \in ActiveUsers : \E outs \in InactivitySweepOutcomes :
       InactivitySweepStep(u, outs)
  \/ \E u \in ActiveUsers : \E usageOk \in BOOLEAN : InactivityEvalStep(u, usageOk)

SpecInactivity == InitInactivity /\ [][NextInactivity]_vars

----------------------------------------------------------------------------
(* The configuration store and the admin settings route on their own:       *)
(* SpecConfig draws a stored row, in range or not, and applies reads,       *)
(* updates with arbitrary numbers, and PATCH requests to it                 *)

\* The config getKeyPolicyConfig() returns when the row is s
getKeyPolicyConfigResult(s) == normalizePolicyConfig(getOrCreateSystemState(s))

\* The config updateKeyPolicyConfig(input) returns
updateKeyPolicyConfigResult(input) == normalizePolicyConfig(input)

\* A number check that lets a fractional number through
zodInt_NoIntCheck(value, min, max) ==
  /\ value # NonFinite
  /\ MathTrunc(value) >= min
  /\ MathTrunc(value) <= max

\* z.number().int().min(min).max(max)
zodInt(value, min, max) ==
  /\ value # NonFinite
  /\ ~IsFraction(value)
  /\ value >= min
  /\ value <= max

\* updatePolicySchema.safeParse(body).success; a key the body lacks is
\* undefined, NonFinite here
updatePolicySchema(body) ==
  /\ zodInt(body.inactivityHours, MIN_INACTIVITY_HOURS, MAX_INACTIVITY_HOURS)
  /\ zodInt(body.dailyReactivateHourBjt, 0, 23)
  /\ zodInt(body.dailyReactivateMinuteBjt, 0, 59)

\* parsed.data as updateKeyPolicyConfig reads it: the schema keeps its three
\* keys and strips the others, so dailyQuotaLimit is undefined
parsedData(body) ==
  [dailyQuotaLimit |-> NonFinite,
   dailyReactivateHourBjt |-> body.dailyReactivateHourBjt,
   dailyReactivateMinuteBjt |-> body.dailyReactivateMinuteBjt]

\* Stored rows the model starts from: integer columns, in range or not
StoredLimits == {0, 100, 100001}
StoredHours == {-1, 8, 24}
StoredMinutes == {-1, 0, 60}

\* lastDailyReactivateAt of the stored rows: never swept, or swept at T0
StoredStamps == {Null, T0}

StoredRows ==
  {[exists |-> TRUE, dailyQuotaLimit |-> l, dailyReactivateHourBjt |-> h,
    dailyReactivateMinuteBjt |-> m, lastDailyReactivateAt |-> last] :
     l \in StoredLimits, h \in StoredHours, m \in StoredMinutes,
     last \in StoredStamps}

\* Numbers handed to updateKeyPolicyConfig: NaN/undefined, out of range, in
\* range, and with a fractional part (1/2, -1/2, 119/2)
RawLimits == {NonFinite, 5, 100001, Fraction(1)}
RawHours == {NonFinite, 20, 24, Fraction(-1)}
RawMinutes == {0, 60, Fraction(119)}

RawInputs ==
  [dailyQuotaLimit : RawLimits, dailyReactivateHourBjt : RawHours,
   dailyReactivateMinuteBjt : RawMinutes]

\* The JSON bodies of the PATCH requests
PatchBodies ==
  [inactivityHours : {NonFinite, 5, 169, Fraction(11)},
   dailyQuotaLimit : {NonFinite, 5},
   dailyReactivateHourBjt : {NonFinite, 20, 24},
   dailyReactivateMinuteBjt : {NonFinite, 30, 60}]

NoInput ==
  [dailyQuotaLimit |-> NonFinite, dailyReactivateHourBjt |-> NonFinite,
   dailyReactivateMinuteBjt |-> NonFinite]

NoBody ==
  [inactivityHours |-> NonFinite, dailyQuotaLimit |-> NonFinite,
   dailyReactivateHourBjt |-> NonFinite, dailyReactivateMinuteBjt |-> NonFinite]

\* What the last operation on the store was: the row it found, what it was
\* given, the config or the HTTP status it returned, and whether it repeats
\* the update before it
ConfigOp(kind, before, input, body, returned, status, repeat) ==
  [kind |-> kind, before |-> before, input |-> input, body |-> body,
   returned |-> returned, status |-> status, repeat |-> repeat]

InitConfig ==
  /\ now = T0
  /\ sys \in StoredRows \cup {NoSystemState}
  /\ users = [u \in Users |-> NewUserRow(u, T0)]
  /\ keyEnabled = [u \in Users |-> TRUE]
  /\ backendUsed = [u \in Users |-> 0]
  /\ req = [u \in Users |-> "idle"]
  /\ step = ConfigOp("init", sys, NoInput, NoBody, NoConfig, 0, FALSE)
  /\ trace = <<>>
  /\ prevSweep = NoSweep
  /\ calc = IdleCalc

\* getKeyPolicyConfig()
ReadConfig ==
  /\ sys' = getKeyPolicyConfig(sys)
  /\ step' = ConfigOp("read", sys, NoInput, NoBody,
                      getKeyPolicyConfigResult(sys), 0, FALSE)
  /\ UNCHANGED <<now, users, keyEnabled, backendUsed, req, trace, prevSweep, calc>>

\* updateKeyPolicyConfig(input)
WriteConfig(input) ==
  /\ sys' = updateKeyPolicyConfig(sys, input)
  /\ step' = ConfigOp("update", sys, input, NoBody,
                      updateKeyPolicyConfigResult(input), 0,
                      step.kind = "update" /\ step.input = input)
  /\ UNCHANGED <<now, users, keyEnabled, backendUsed, req, trace, prevSweep, calc>>

\* PATCH /api/admin/settings by a caller who is an admin or not
PATCH(admin, body) ==
  /\ IF ~admin
     THEN /\ sys' = sys
          /\ step' = ConfigOp("patch", sys, NoInput, body, NoConfig, 403, FALSE)
     ELSE IF ~updatePolicySchema(body)
     THEN /\ sys' = sys
          /\ step' = ConfigOp("patch", sys, NoInput, body, NoConfig, 400, FALSE)
     ELSE /\ sys' = updateKeyPolicyConfig(sys, parsedData(body))
          /\ step' = ConfigOp("patch", sys, parsedData(body), body,
                              updateKeyPolicyConfigResult(parsedData(body)),
                              200, FALSE)
  /\ UNCHANGED <<now, users, keyEnabled, backendUsed, req, trace, prevSweep, calc>>

NextConfig ==
  \/ ReadConfig
  \/ \E input \in RawInputs : WriteConfig(input)
  \/ \E admin \in BOOLEAN : \E body \in PatchBodies : PATCH(admin, body)

SpecConfig == InitConfig /\ [][NextConfig]_vars

----------------------------------------------------------------------------
(* The backend adapter's transport (cchAction): the session-token cache, the *)
(* cookie-authenticated attempt with its refresh on 401, and the Bearer      *)
(* fallback.  SpecAdapter runs calls one request at a time, the backend's    *)
(* answers being drawn; calc is the call in progress and the token cache,    *)
(* trace the requests the call has sent so far.                              *)

CCH_AUTH_CACHE_TTL_MS == 5 * MINUTE_MS

\* What the backend can answer to an action request: 2xx with a usable body,
\* 2xx with ok=false, 2xx with a body that is not JSON, 401, another non-2xx
\* status, or no answer at all (fetch rejects)
ActionResponses ==
  {"ok", "business_error", "malformed", "unauthorized", "server_error",
   "network_error"}

\* What /api/auth/login can answer: a token (cookie or body), a non-2xx
\* status, 2xx without a token, or no answer at all
LoginResponses == {"token", "rejected", "no_token", "network_error"}

\* The server actions the calls are for
AdapterActions == {"addUser", "editKey"}

\* An HTTP request the call sent, with the answer it got
Request(ev, auth, forced, resp) ==
  [ev |-> ev, auth |-> auth, forced |-> forced, resp |-> resp]

\* getAuthToken's cache test
tokenCached(forceRefresh, cachedExpiresAt, date) ==
  ~forceRefresh /\ cachedExpiresAt # Null /\ cachedExpiresAt > date

\* A retry that does not look at allowRefresh
cookieRefreshes_Always(resp, allowRefresh) == resp = "unauthorized"

\* cchActionWithCookie's test for the refresh and retry
cookieRefreshes(resp, allowRefresh) == resp = "unauthorized" /\ allowRefresh

\* Whether an action request returns a result (response.ok, response.json()
\* and parseActionResult all pass); it throws otherwise
actionReturns(resp) == resp = "ok"

\* A Bearer fallback that runs only when the session attempt sent nothing
bearerFallback_OnlyWhenUnsent(tr) ==
  \A i \in DOMAIN tr : tr[i].ev # "action"

\* cchAction's catch: the Bearer request follows any failure of the session
\* attempt
bearerFallback(tr) == TRUE

AdapterCall(pc, action, allowRefresh, cachedExpiresAt, result) ==
  [pc |-> pc, action |-> action, allowRefresh |-> allowRefresh,
   cachedExpiresAt |-> cachedExpiresAt, result |-> result]

\* Where a failure of the session attempt leads
AfterCookieFailure(tr) == IF bearerFallback(tr) THEN "bearerFetch" ELSE "done"

InitAdapter ==
  /\ now = T0
  /\ sys = NoSystemState
  /\ users = [u \in Users |-> NewUserRow(u, T0)]
  /\ keyEnabled = [u \in Users |-> TRUE]
  /\ backendUsed = [u \in Users |-> 0]
  /\ req = [u \in Users |-> "idle"]
  /\ step = Op("init", 0, "none")
  /\ trace = <<>>
  /\ prevSweep = NoSweep
  /\ calc = AdapterCall("idle", "none", TRUE, Null, "none")

AdapterFrame == UNCHANGED <<sys, users, keyEnabled, backendUsed, req, step, prevSweep>>

\* cchAction(module, action, body) is called
Call(action) ==
  /\ calc.pc = "idle"
  /\ calc' = AdapterCall("getAuthToken", action, TRUE, calc.cachedExpiresAt, "none")
  /\ trace' = <<>>
  /\ UNCHANGED now
  /\ AdapterFrame

\* getAuthToken() at the head of cchActionWithCookie
GetAuthToken(lr) ==
  /\ calc.pc = "getAuthToken"
  /\ IF tokenCached(FALSE, calc.cachedExpiresAt, now)
     THEN /\ calc' = [calc EXCEPT !.pc = "cookieFetch"]
          /\ trace' = trace
     ELSE /\ trace' = Append(trace, Request("login", "key", FALSE, lr))
          /\ IF lr = "token"
             THEN calc' = [calc EXCEPT !.pc = "cookieFetch",
                                       !.cachedExpiresAt = now + CCH_AUTH_CACHE_TTL_MS]
             ELSE calc' = [calc EXCEPT !.pc = AfterCookieFailure(trace'),
                                       !.result = IF AfterCookieFailure(trace') = "done"
                                                  THEN "error" ELSE "none"]
  /\ UNCHANGED now
  /\ AdapterFrame

\* The action request of cchActionWithCookie and what follows its answer
CookieFetch(resp) ==
  /\ calc.pc = "cookieFetch"
  /\ trace' = Append(trace, Request("action", "cookie", FALSE, resp))
  /\ IF cookieRefreshes(resp, calc.allowRefresh)
     THEN calc' = [calc EXCEPT !.pc = "forceRefresh"]
     ELSE IF actionReturns(resp)
     THEN calc' = [calc EXCEPT !.pc = "done", !.result = "ok"]
     ELSE calc' = [calc EXCEPT !.pc = AfterCookieFailure(trace'),
                               !.result = IF AfterCookieFailure(trace') = "done"
                                          THEN "error" ELSE "none"]
  /\ UNCHANGED now
  /\ AdapterFrame

\* getAuthToken(true) after a 401, then the recursive call with
\* allowRefresh = false, whose getAuthToken() tests the cache just written
ForceRefresh(lr) ==
  /\ calc.pc = "forceRefresh"
  /\ trace' = Append(trace, Request("login", "key", TRUE, lr))
  /\ IF lr = "token"
     THEN calc' = [calc EXCEPT !.pc = IF tokenCached(FALSE,
                                                     now + CCH_AUTH_CACHE_TTL_MS, now)
                                      THEN "cookieFetch" ELSE "getAuthToken",
                               !.allowRefresh = FALSE,
                               !.cachedExpiresAt = now + CCH_AUTH_CACHE_TTL_MS]
     ELSE calc' = [calc EXCEPT !.pc = AfterCookieFailure(trace'),
                               !.result = IF AfterCookieFailure(trace') = "done"
                                          THEN "error" ELSE "none"]
  /\ UNCHANGED now
  /\ AdapterFrame

\* The action request of cchActionWithBearer
BearerFetch(resp) ==
  /\ calc.pc = "bearerFetch"
  /\ trace' = Append(trace, Request("action", "bearer", FALSE, resp))
  /\ calc' = [calc EXCEPT !.pc = "done",
                          !.result = IF actionReturns(resp) THEN "ok" ELSE "error"]
  /\ UNCHANGED now
  /\ AdapterFrame

\* cchAction returns or throws to its caller
Return ==
  /\ calc.pc = "done"
  /\ calc' = AdapterCall("idle", "none", TRUE, calc.cachedExpiresAt, "none")
  /\ UNCHANGED <<now, trace>>
  /\ AdapterFrame

\* Three minutes pass
AdapterTick ==
  /\ now < T0 + MaxTicks * 3 * MINUTE_MS
  /\ now' = now + 3 * MINUTE_MS
  /\ UNCHANGED <<calc, trace>>
  /\ AdapterFrame

NextAdapter ==
  \/ \E action \in AdapterActions : Call(action)
  \/ \E lr \in LoginResponses : GetAuthToken(lr)
  \/ \E resp \in ActionResponses : CookieFetch(resp)
  \/ \E lr \in LoginResponses : ForceRefresh(lr)
  \/ \E resp \in ActionResponses : BearerFetch(resp)
  \/ Return
  \/ AdapterTick

SpecAdapter == InitAdapter /\ [][NextAdapter]_vars

----------------------------------------------------------------------------
(* The daily restore as a liveness property: SpecLive is the state machine   *)
(* above in which time passes and the adapter calls of a sweep succeed in    *)
(* the end, which over a bounded clock means at its last instant.  That      *)
(* requests keep arriving is a hypothesis of the property itself.            *)

\* The outcomes of a sweep's adapter calls when the calls succeed in the end
LiveSweepCalls ==
  {outs \in SweepCalls :
     now = ClockAt(MaxTicks) => \A u \in Users : outs[u] = AllOk}

NextLive ==
  \/ Tick
  \/ \E u \in ActiveUsers : UseKey(u)
  \/ \E outs \in LiveSweepCalls : CallbackRefresh(outs)
  \/ \E u \in ActiveUsers : \E outs \in LiveSweepCalls : CallbackLogin(u, outs)
  \/ \E u \in ActiveUsers : RouteRead(u)
  \/ \E u \in ActiveUsers : \E outs \in LiveSweepCalls : EvalRefresh(u, outs)
  \/ \E u \in ActiveUsers : \E out \in EvalCalls(u) : EvalUser(u, out)
  \/ \E u \in ActiveUsers : \E out \in BanCalls(u) : Ban(u, out)
  \/ \E u \in ActiveUsers : \E out \in BanCalls(u) : Unban(u, out)
  \/ \E input \in ConfigInputs : UpdateConfig(input)

\* Time passes whenever no evaluation is under way
LiveFairness == SF_vars(Tick)

SpecLive == Init /\ [][NextLive]_vars /\ LiveFairness

----------------------------------------------------------------------------
(* Concurrent invocations: SpecRace runs two invocations, each a sweep       *)
(* (ensureDailyQuotaRefresh) or an evaluation (evaluateUserKeyPolicy) of     *)
(* user 1, one await at a time and interleaved in every way, while the clock *)
(* passes one boundary and the user spends quota.  calc holds the local      *)
(* variables of each invocation and what it has done so far.                 *)

Procs == {"a", "b"}

\* The instants of the race: one before and one after the 20:00 boundary
RaceClock == {ClockAt(0), ClockAt(1)}

\* The stored config of the race: limit 1, reactivation at 20:00 Beijing time
RaceConfig ==
  [dailyQuotaLimit |-> 1, dailyReactivateHourBjt |-> 20, dailyReactivateMinuteBjt |-> 0]

\* The boundary in force at the start of the race
RaceBoundary == getLatestDailyReactivateAt(T0, 20, 0)

\* The local variables of an invocation
IdleProc ==
  [kind |-> "none", pc |-> "idle", user |-> 0, date |-> Null, config |-> NoConfig,
   latest |-> Null, todo |-> <<>>, used |-> 0, snap |-> KeylessUserRow,
   batch |-> FALSE, enables |-> 0, disable |-> "none", wrote |-> FALSE,
   status |-> "none"]

\* A reset that clears the flag and leaves autoDisabledAt as it finds it
resetColumns_KeepsDate(row, latestRefreshAt, used) ==
  [row EXCEPT !.lastKnownUsage = used,
              !.quotaWindowStartAt = latestRefreshAt,
              !.quotaWindowBaseUsage = used,
              !.keyAutoDisabled = FALSE]

\* The columns the sweep's task writes
resetColumns(row, latestRefreshAt, used) ==
  [row EXCEPT !.lastKnownUsage = used,
              !.quotaWindowStartAt = latestRefreshAt,
              !.quotaWindowBaseUsage = used,
              !.keyAutoDisabled = FALSE,
              !.autoDisabledAt = Null]

\* The columns the evaluator's stale-window branch writes
windowColumns(row, latestRefreshAt, used) ==
  [row EXCEPT !.quotaWindowStartAt = latestRefreshAt,
              !.quotaWindowBaseUsage = used,
              !.keyAutoDisabled = FALSE,
              !.autoDisabledAt = Null]

\* A disable write that inverts the flag it finds
disableColumns_Flips(row, date) ==
  [row EXCEPT !.keyAutoDisabled = ~row.keyAutoDisabled, !.autoDisabledAt = date]

\* The columns the evaluator's disable branch writes
disableColumns(row, date) ==
  [row EXCEPT !.keyAutoDisabled = TRUE, !.autoDisabledAt = date]

\* The sweep's final update of lastDailyReactivateAt
stampColumn(state, latestRefreshAt) ==
  [state EXCEPT !.lastDailyReactivateAt = latestRefreshAt]

\* An evaluator that decides on the row as it is now
currentUserOf_Reread(snap, row) == row

\* currentUser in the evaluator's decisions: the row findUnique returned, not
\* read again
currentUserOf(snap, row) == snap

\* Where an invocation goes when its sweep part is over
AfterSweep(l) == IF l.kind = "sweep" THEN "done" ELSE "findUnique"

\* keyStatus as the evaluator returns it when it does not disable
RaceStatus(l) ==
  IF (IF EvalStale(l.snap, l.latest) THEN FALSE ELSE l.snap.keyAutoDisabled)
  THEN "quota_exhausted" ELSE "active"

\* Where an evaluation goes after the stale-window branch, or without it
AfterWindow(l, row) ==
  IF EvalExhausted(currentUserOf(l.snap, row), l.latest, l.used, l.config)
  THEN [l EXCEPT !.pc = "disable"]
  ELSE [l EXCEPT !.pc = "done", !.status = RaceStatus(l)]

\* Where an evaluation goes after the lastKnownUsage write, or without it
AfterUsage(l, row) ==
  IF EvalStale(currentUserOf(l.snap, row), l.latest)
  THEN [l EXCEPT !.pc = "enable"]
  ELSE AfterWindow(l, row)

InitRace ==
  /\ now = T0
  /\ \E last \in {RaceBoundary - DAY_MS, RaceBoundary}, exhausted \in BOOLEAN :
       /\ sys = [exists |-> TRUE, dailyQuotaLimit |-> RaceConfig.dailyQuotaLimit,
                 dailyReactivateHourBjt |-> RaceConfig.dailyReactivateHourBjt,
                 dailyReactivateMinuteBjt |-> RaceConfig.dailyReactivateMinuteBjt,
                 lastDailyReactivateAt |-> last]
       /\ users = [u \in Users |->
            IF u = 1
            THEN [NewUserRow(1, last) EXCEPT
                    !.lastKnownUsage = IF exhausted THEN 1 ELSE 0,
                    !.keyAutoDisabled = exhausted,
                    !.autoDisabledAt = IF exhausted THEN last ELSE Null]
            ELSE KeylessUserRow]
       /\ keyEnabled = [u \in Users |-> u # 1 \/ ~exhausted]
       /\ backendUsed = [u \in Users |-> IF u = 1 /\ exhausted THEN 1 ELSE 0]
  /\ req = [u \in Users |-> "idle"]
  /\ step = Op("init", 0, "none")
  /\ trace = <<>>
  /\ prevSweep = NoSweep
  /\ calc = [p \in Procs |-> IdleProc]

RaceFrame == UNCHANGED <<req, step, prevSweep>>

\* ensureDailyQuotaRefresh() is called (by the callback route)
StartSweep(p) ==
  /\ calc[p].pc = "idle"
  /\ calc' = [calc EXCEPT ![p] = [IdleProc EXCEPT !.kind = "sweep", !.pc = "config",
                                                  !.date = now]]
  /\ UNCHANGED <<now, sys, users, keyEnabled, backendUsed, trace>>
  /\ RaceFrame

\* evaluateUserKeyPolicy(user) is called (by the key route)
StartEval(p, u) ==
  /\ calc[p].pc = "idle"
  /\ calc' = [calc EXCEPT ![p] = [IdleProc EXCEPT !.kind = "eval", !.pc = "config",
                                                  !.user = u, !.date = now]]
  /\ UNCHANGED <<now, sys, users, keyEnabled, backendUsed, trace>>
  /\ RaceFrame

\* await getKeyPolicyConfig(), then the latest boundary
RaceConfigStep(p) ==
  /\ calc[p].pc = "config"
  /\ sys' = getKeyPolicyConfig(sys)
  /\ LET config == getKeyPolicyConfigResult(sys)
     IN  calc' = [calc EXCEPT ![p].pc = "state",
                              ![p].config = config,
                              ![p].latest = getLatestDailyReactivateAt(
                                  calc[p].date, config.dailyReactivateHourBjt,
                                  config.dailyReactivateMinuteBjt)]
  /\ UNCHANGED <<now, users, keyEnabled, backendUsed, trace>>
  /\ RaceFrame

\* await getOrCreateSystemState(), then the early return
RaceStateStep(p) ==
  /\ calc[p].pc = "state"
  /\ sys' = getOrCreateSystemState(sys)
  /\ calc' = [calc EXCEPT ![p].pc =
                IF SweepUpToDate(getOrCreateSystemState(sys), calc[p].latest)
                THEN AfterSweep(calc[p]) ELSE "findMany"]
  /\ UNCHANGED <<now, users, keyEnabled, backendUsed, trace>>
  /\ RaceFrame

\* await prisma.user.findMany(...)
RaceFindMany(p) ==
  /\ calc[p].pc = "findMany"
  /\ LET todo == SelectSeq(UserOrder, LAMBDA u : u \in SweepSelected(users))
     IN  calc' = [calc EXCEPT ![p].todo = todo, ![p].batch = TRUE,
                              ![p].pc = IF todo = <<>> THEN "stamp" ELSE "taskUsage"]
  /\ UNCHANGED <<now, sys, users, keyEnabled, backendUsed, trace>>
  /\ RaceFrame

\* A task's await cchClient.getKeyQuotaUsage(...)
RaceTaskUsage(p) ==
  /\ calc[p].pc = "taskUsage"
  /\ LET u == Head(calc[p].todo)
         used == getKeyQuotaUsage(u, TRUE)
     IN  /\ calc' = [calc EXCEPT ![p].used = used, ![p].pc = "taskToggle"]
  /\ UNCHANGED <<now, sys, users, keyEnabled, backendUsed, trace>>
  /\ RaceFrame

\* A task's await cchClient.toggleKeyEnabled(key, true); a throw ends the task
RaceTaskToggle(p, ok) ==
  /\ calc[p].pc = "taskToggle"
  /\ LET u == Head(calc[p].todo)
     IN  /\ keyEnabled' = IF ok THEN [keyEnabled EXCEPT ![u] = TRUE] ELSE keyEnabled
         /\ calc' = IF ok THEN [calc EXCEPT ![p].pc = "taskWrite",
                                            ![p].enables = @ + 1]
                    ELSE [calc EXCEPT ![p].todo = Tail(@),
                                      ![p].pc = IF Tail(calc[p].todo) = <<>>
                                                THEN "stamp" ELSE "taskUsage"]
  /\ UNCHANGED <<now, sys, users, backendUsed, trace>>
  /\ RaceFrame

\* A task's await prisma.user.update(...)
RaceTaskWrite(p) ==
  /\ calc[p].pc = "taskWrite"
  /\ LET u == Head(calc[p].todo)
     IN  /\ users' = [users EXCEPT ![u] = resetColumns(@, calc[p].latest, calc[p].used)]
         /\ calc' = [calc EXCEPT ![p].todo = Tail(@),
                                 ![p].pc = IF Tail(calc[p].todo) = <<>>
                                           THEN "stamp" ELSE "taskUsage"]
  /\ UNCHANGED <<now, sys, keyEnabled, backendUsed, trace>>
  /\ RaceFrame

\* await prisma.systemState.update({ lastDailyReactivateAt: latestRefreshAt })
RaceStamp(p) ==
  /\ calc[p].pc = "stamp"
  /\ sys' = stampColumn(sys, calc[p].latest)
  /\ calc' = [calc EXCEPT ![p].pc = AfterSweep(calc[p])]
  /\ UNCHANGED <<now, users, keyEnabled, backendUsed, trace>>
  /\ RaceFrame

\* await prisma.user.findUnique(...)
RaceFindUnique(p) ==
  /\ calc[p].pc = "findUnique"
  /\ LET snap == users[calc[p].user]
         l == [calc[p] EXCEPT !.snap = snap]
     IN  calc' = [calc EXCEPT ![p] =
                    IF HasKeyId(snap) THEN [l EXCEPT !.pc = "usage"]
                    ELSE [l EXCEPT !.pc = "done",
                                   !.status = IF snap.keyAutoDisabled
                                              THEN "quota_exhausted" ELSE "active"]]
  /\ UNCHANGED <<now, sys, users, keyEnabled, backendUsed, trace>>
  /\ RaceFrame

\* The evaluator's await cchClient.getKeyQuotaUsage(...)
RaceUsage(p) ==
  /\ calc[p].pc = "usage"
  /\ LET u == calc[p].user
         used == getKeyQuotaUsage(u, TRUE)
         l == [calc[p] EXCEPT !.used = used]
     IN  /\ calc' = [calc EXCEPT ![p] =
                       IF usageChanged(used, l.snap.lastKnownUsage)
                       THEN [l EXCEPT !.pc = "writeUsage"]
                       ELSE AfterUsage(l, users[u])]
  /\ UNCHANGED <<now, sys, users, keyEnabled, backendUsed, trace>>
  /\ RaceFrame

\* await prisma.user.update({ lastKnownUsage: used })
RaceWriteUsage(p) ==
  /\ calc[p].pc = "writeUsage"
  /\ LET u == calc[p].user
     IN  /\ users' = [users EXCEPT ![u].lastKnownUsage = calc[p].used]
         /\ calc' = [calc EXCEPT ![p] = AfterUsage(calc[p], users'[u])]
  /\ UNCHANGED <<now, sys, keyEnabled, backendUsed, trace>>
  /\ RaceFrame

\* The stale-window branch's await cchClient.toggleKeyEnabled(key, true)
RaceEnable(p, ok) ==
  /\ calc[p].pc = "enable"
  /\ LET u == calc[p].user
     IN  /\ keyEnabled' = IF ok THEN [keyEnabled EXCEPT ![u] = TRUE] ELSE keyEnabled
         /\ calc' = [calc EXCEPT ![p].pc = "writeWindow"]
  /\ UNCHANGED <<now, sys, users, backendUsed, trace>>
  /\ RaceFrame

\* The stale-window branch's await prisma.user.update(...)
RaceWriteWindow(p) ==
  /\ calc[p].pc = "writeWindow"
  /\ LET u == calc[p].user
     IN  /\ users' = [users EXCEPT ![u] = windowColumns(@, calc[p].latest, calc[p].used)]
         /\ calc' = [calc EXCEPT ![p] = AfterWindow(calc[p], users'[u])]
  /\ UNCHANGED <<now, sys, keyEnabled, backendUsed, trace>>
  /\ RaceFrame

\* The disable branch's await cchClient.toggleKeyEnabled(key, false)
RaceDisable(p, ok) ==
  /\ calc[p].pc = "disable"
  /\ LET u == calc[p].user
     IN  /\ keyEnabled' = IF ok THEN [keyEnabled EXCEPT ![u] = FALSE] ELSE keyEnabled
         /\ calc' = IF ok THEN [calc EXCEPT ![p].pc = "writeDisable",
                                            ![p].disable = "ok"]
                    ELSE [calc EXCEPT ![p].pc = "done", ![p].disable = "failed",
                                      ![p].status = RaceStatus(calc[p])]
  /\ UNCHANGED <<now, sys, users, backendUsed, trace>>
  /\ RaceFrame

\* The disable branch's await prisma.user.update(...)
RaceWriteDisable(p) ==
  /\ calc[p].pc = "writeDisable"
  /\ LET u == calc[p].user
     IN  /\ users' = [users EXCEPT ![u] = disableColumns(@, calc[p].date)]
         /\ calc' = [calc EXCEPT ![p].pc = "done", ![p].wrote = TRUE,
                                 ![p].status = "quota_exhausted"]
  /\ UNCHANGED <<now, sys, keyEnabled, backendUsed, trace>>
  /\ RaceFrame

\* The clock passes the boundary
RaceTick ==
  /\ \E t \in RaceClock : t > now /\ now' = t
  /\ UNCHANGED <<sys, users, keyEnabled, backendUsed, calc, trace>>
  /\ RaceFrame

\* The holder of an enabled key spends quota
RaceUseKey(u) ==
  /\ HasKeyId(users[u])
  /\ keyEnabled[u]
  /\ backendUsed[u] < MaxUsage
  /\ backendUsed' = [backendUsed EXCEPT ![u] = @ + 1]
  /\ UNCHANGED <<now, sys, users, keyEnabled, calc, trace>>
  /\ RaceFrame

NextRace ==
  \/ \E p \in Procs : StartSweep(p)
  \/ \E p \in Procs : \E u \in ActiveUsers : StartEval(p, u)
  \/ \E p \in Procs : RaceConfigStep(p)
  \/ \E p \in Procs : RaceStateStep(p)
  \/ \E p \in Procs : RaceFindMany(p)
  \/ \E p \in Procs : RaceTaskUsage(p)
  \/ \E p \in Procs : \E ok \in BOOLEAN : RaceTaskToggle(p, ok)
  \/ \E p \in Procs : RaceTaskWrite(p)
  \/ \E p \in Procs : RaceStamp(p)
  \/ \E p \in Procs : RaceFindUnique(p)
  \/ \E p \in Procs : RaceUsage(p)
  \/ \E p \in Procs : RaceWriteUsage(p)
  \/ \E p \in Procs : \E ok \in BOOLEAN : RaceEnable(p, ok)
  \/ \E p \in Procs : RaceWriteWindow(p)
  \/ \E p \in Procs : \E ok \in BOOLEAN : RaceDisable(p, ok)
  \/ \E p \in Procs : RaceWriteDisable(p)
  \/ RaceTick
  \/ \E u \in ActiveUsers : RaceUseKey(u)

SpecRace == InitRace /\ [][NextRace]_vars

----------------------------------------------------------------------------
(* The evaluator as a function of the row it reads: SpecEvaluate draws the   *)
(* row of user 1, the backend counter and the quota limit from small sets    *)
(* and evaluates the user once; calc holds the UserPolicyState returned.     *)

\* The instant of the evaluation (20:05 of day 1) and the boundary before it
EvalDate == ClockAt(1)
EvalBoundary == getLatestDailyReactivateAt(EvalDate, 20, 0)

\* The backend counters and the quota limits drawn
EvalUsages == {0, 1, 3}
EvalLimits == {1, 2}

\* The rows of the User table drawn for user 1 (columns of PolicyTrackedUser)
EvalRows ==
  {[cchKeyId |-> key, isBanned |-> banned, lastKnownUsage |-> last,
    quotaWindowStartAt |-> start, quotaWindowBaseUsage |-> base,
    keyAutoDisabled |-> flag, autoDisabledAt |-> IF flag THEN T0 ELSE Null] :
     key \in {Null, KeyIdOf(1)}, banned \in BOOLEAN, last \in {0, 3},
     start \in {Null, EvalBoundary - DAY_MS, EvalBoundary}, base \in {0, 2},
     flag \in BOOLEAN}

\* The UserPolicyState evaluateUserKeyPolicy returns (usage.used, keyStatus,
\* autoDisabledAt, todayUsed, todayRemaining), w being the state it leaves
userPolicyState(w, currentUser, u, date, policyConfig, out) ==
  LET used == getKeyQuotaUsage(u, out.usageOk)
      latestRefreshAt == getLatestDailyReactivateAt(
          date, policyConfig.dailyReactivateHourBjt,
          policyConfig.dailyReactivateMinuteBjt)
      todayUsed == IF HasKeyId(currentUser)
                   THEN EvalTodayUsed(currentUser, latestRefreshAt, used) ELSE 0
  IN  [usage |-> IF HasKeyId(currentUser) THEN used ELSE Null,
       keyStatus |-> w.keyStatus,
       autoDisabledAt |->
         IF ~HasKeyId(currentUser) THEN currentUser.autoDisabledAt
         ELSE IF /\ EvalExhausted(currentUser, latestRefreshAt, used, policyConfig)
                 /\ out.disableOk
         THEN date
         ELSE IF EvalStale(currentUser, latestRefreshAt) THEN Null
         ELSE currentUser.autoDisabledAt,
       todayUsed |-> todayUsed,
       todayRemaining |->
         IF HasKeyId(currentUser)
         THEN Max2(0, policyConfig.dailyQuotaLimit - todayUsed)
         ELSE policyConfig.dailyQuotaLimit]

\* What calc holds before the evaluation has returned
NoPolicyState ==
  [usage |-> Null, keyStatus |-> "none", autoDisabledAt |-> Null,
   todayUsed |-> 0, todayRemaining |-> 0]

InitEvaluate ==
  /\ now = EvalDate
  /\ \E limit \in EvalLimits :
       sys = [exists |-> TRUE, dailyQuotaLimit |-> limit,
              dailyReactivateHourBjt |-> 20, dailyReactivateMinuteBjt |-> 0,
              lastDailyReactivateAt |-> EvalBoundary]
  /\ \E row \in EvalRows :
       /\ users = [u \in Users |-> IF u = 1 THEN row ELSE KeylessUserRow]
       /\ keyEnabled = [u \in Users |->
                          u = 1 /\ HasKeyId(row) /\ ~row.keyAutoDisabled /\ ~row.isBanned]
  /\ \E used \in EvalUsages : backendUsed = [u \in Users |-> IF u = 1 THEN used ELSE 0]
  /\ req = [u \in Users |-> "idle"]
  /\ step = Op("init", 0, "none")
  /\ trace = <<>>
  /\ prevSweep = NoSweep
  /\ calc = NoPolicyState

\* evaluateUserKeyPolicy(user 1, now) from its re-read of the row to its return
Evaluate(u, out) ==
  \E w \in {evaluateUserKeyPolicy(World(sys, users, keyEnabled), users[u], u, now,
                                  CurrentConfig, out)} :
      /\ step.kind = "init"
      /\ sys' = w.sys
      /\ users' = w.users
      /\ keyEnabled' = w.keyEnabled
      /\ trace' = w.trace
      /\ step' = EvalOp(u, w.keyStatus)
      /\ calc' = userPolicyState(w, users[u], u, now, CurrentConfig, out)
      /\ UNCHANGED <<now, backendUsed, req, prevSweep>>

NextEvaluate == \E out \in EvalCalls(1) : Evaluate(1, out)

SpecEvaluate == InitEvaluate /\ [][NextEvaluate]_vars

----------------------------------------------------------------------------
(* The OAuth callback's find-or-create for one external identity:           *)
(* SpecCallback runs the callbacks of several requests for the same         *)
(* linuxdoId one await at a time.  calc holds each request's position, the  *)
(* local row of the identity (the id of the remote user it records, or      *)
(* Null when there is no row) and the number of remote users addUser has    *)
(* created.                                                                 *)

Callers == {"a", "b", "c"}

\* A request before its findUnique
IdleCallback == [pc |-> "idle", remote |-> Null, outcome |-> "none"]

\* Where the callback redirects to once the user is found or created
LoggedIn(l) == [l EXCEPT !.pc = "done", !.outcome = "dashboard"]

\* The redirect of the inner catch
CreationFailed(l) == [l EXCEPT !.pc = "done", !.outcome = "cch_creation_failed"]

InitCallback ==
  /\ now = T0
  /\ sys = NoSystemState
  /\ users = [u \in Users |-> KeylessUserRow]
  /\ keyEnabled = [u \in Users |-> FALSE]
  /\ backendUsed = [u \in Users |-> 0]
  /\ req = [u \in Users |-> "idle"]
  /\ step = Op("init", 0, "none")
  /\ trace = <<>>
  /\ prevSweep = NoSweep
  /\ \E known \in BOOLEAN : \E banned \in BOOLEAN :
       calc = [procs |-> [p \in Callers |-> IdleCallback],
               row |-> IF known THEN 1 ELSE Null,
               isBanned |-> known /\ banned,
               created |-> IF known THEN 1 ELSE 0]

CallbackFrame ==
  UNCHANGED <<now, sys, users, keyEnabled, backendUsed, req, step, trace, prevSweep>>

\* await prisma.user.findUnique({ where: { linuxdoId } }), then the branch
CallbackFind(p) ==
  /\ calc.procs[p].pc = "idle"
  /\ calc' = [calc EXCEPT !.procs[p] =
                IF calc.row = Null THEN [@ EXCEPT !.pc = "addUser"]
                ELSE IF calc.isBanned
                THEN [@ EXCEPT !.pc = "done", !.outcome = "banned"]
                ELSE [@ EXCEPT !.pc = "update"]]
  /\ CallbackFrame

\* The returning user's await prisma.user.update(...)
CallbackUpdate(p) ==
  /\ calc.procs[p].pc = "update"
  /\ calc' = [calc EXCEPT !.procs[p] = LoggedIn(@)]
  /\ CallbackFrame

\* await cchClient.addUser(username): the backend creates a user and a key, or
\* the call throws
CallbackAddUser(p, ok) ==
  /\ calc.procs[p].pc = "addUser"
  /\ calc' = IF ok
             THEN [calc EXCEPT !.created = @ + 1,
                               !.procs[p].remote = calc.created + 1,
                               !.procs[p].pc = "create"]
             ELSE [calc EXCEPT !.procs[p] = CreationFailed(@)]
  /\ CallbackFrame

\* await prisma.user.create(...): linuxdoId is the unique key findUnique looks
\* rows up by, so the create throws when the identity has a row by now; the
\* throw is caught by the catch around addUser
CallbackCreate(p) ==
  /\ calc.procs[p].pc = "create"
  /\ calc' = IF calc.row = Null
             THEN [calc EXCEPT !.row = calc.procs[p].remote,
                               !.procs[p] = LoggedIn(@)]
             ELSE [calc EXCEPT !.procs[p] = CreationFailed(@)]
  /\ CallbackFrame

NextCallback ==
  \/ \E p \in Callers : CallbackFind(p)
  \/ \E p \in Callers : CallbackUpdate(p)
  \/ \E p \in Callers : \E ok \in BOOLEAN : CallbackAddUser(p, ok)
  \/ \E p \in Callers : CallbackCreate(p)

SpecCallback == InitCallback /\ [][NextCallback]_vars

----------------------------------------------------------------------------
(* Claims *)

\* C4: for every instant and every configured hour in 0..23 and minute in
\* 0..59, getNextDailyReactivateAt is strictly later than the instant and is
\* getLatestDailyReactivateAt plus 24 hours.
C4_NextAfterNow ==
  calc.done =>
    /\ calc.next > calc.date
    /\ calc.next = calc.latest + DAY_MS

\* C4 witness: an instant before that day's configured time, where the latest
\* boundary is the previous day's and the next one is still to come today
C4_Witness ==
  /\ calc.done
  /\ calc.hour = 16 /\ calc.minute = 30
  /\ calc.date = 2 * DAY_MS + 5 * MINUTE_MS
  /\ calc.next = 2 * DAY_MS + 8 * HOUR_MS + 30 * MINUTE_MS

\* The civil time of day, in +08:00, of an instant
CivilTimeOfDay(t) == (t + BEIJING_OFFSET_MS) % DAY_MS

\* C5: getLatestDailyReactivateAt is the most recent instant <= now whose
\* +08:00 civil time is hour:minute:00, so latest <= now < latest + 24h; with
\* 08:00 configured, 07:55 gives the previous day's 08:00, 08:05 the same
\* day's 08:00, and an instant on the boundary gives itself.
C5_LatestIsMostRecentBoundary ==
  calc.done =>
    /\ calc.latest <= calc.date
    /\ calc.date < calc.latest + DAY_MS
    /\ CivilTimeOfDay(calc.latest) = calc.hour * HOUR_MS + calc.minute * MINUTE_MS
    /\ (calc.hour = 8 /\ calc.minute = 0) =>
         \A d \in 2..MaxCalcDay :
           /\ calc.date = d * DAY_MS - 5 * MINUTE_MS => calc.latest = (d - 1) * DAY_MS
           /\ calc.date = d * DAY_MS + 5 * MINUTE_MS => calc.latest = d * DAY_MS
           /\ calc.date = d * DAY_MS => calc.latest = calc.date

\* C5 witness: 08:00 configured and now = 07:55 +08:00 of day 2, which gives
\* 08:00 +08:00 of day 1
C5_Witness ==
  /\ calc.done
  /\ calc.hour = 8 /\ calc.minute = 0
  /\ calc.date = 2 * DAY_MS - 5 * MINUTE_MS
  /\ calc.latest = DAY_MS

----------------------------------------------------------------------------
(* What a step did, read from its trace *)

\* The number of toggleKeyEnabled(key of u, enabled) calls in a trace
ToggleCount(tr, u, enabled) ==
  Cardinality({i \in DOMAIN tr :
                 tr[i].ev = "toggle" /\ tr[i].user = u /\ tr[i].enabled = enabled})

\* A toggleKeyEnabled(key of u, enabled) call of the trace returned / threw
ToggleOk(tr, u, enabled) ==
  \E i \in DOMAIN tr :
    tr[i].ev = "toggle" /\ tr[i].user = u /\ tr[i].enabled = enabled /\ tr[i].ok
ToggleFailed(tr, u, enabled) ==
  \E i \in DOMAIN tr :
    tr[i].ev = "toggle" /\ tr[i].user = u /\ tr[i].enabled = enabled /\ ~tr[i].ok

\* Some entry of the trace is about user u
Touched(tr, u) == \E i \in DOMAIN tr : tr[i].user = u

\* The number of writes of lastDailyReactivateAt in a trace
StampCount(tr) == Cardinality({i \in DOMAIN tr : tr[i].ev = "writeLast"})

\* The users a sweep has to reactivate: not banned, with a remote key
Eligible(us) == {u \in Users : ~us[u].isBanned /\ us[u].cchKeyId # Null}

\* lastDailyReactivateAt is null or strictly earlier than the boundary
StampOlderThan(last, boundary) == last = Null \/ last < boundary

\* C1: when ensureDailyQuotaRefresh is called twice, one call after the other,
\* at instants with the same latest boundary and with an unchanged config, the
\* second call makes no adapter call and writes nothing, and no call toggles a
\* user more than once: at most one toggleKeyEnabled(key, true) per user in total.
C1_SecondSweepIsNoOp ==
  [][step'.kind = "sweep" =>
       /\ \A u \in Users : ToggleCount(trace', u, TRUE) <= 1
       /\ step'.repeatOf # Null =>
            /\ trace' = <<>>
            /\ sys' = sys
            /\ users' = users
            /\ keyEnabled' = keyEnabled]_vars

\* C1 witness: a sweep call at 20:05 that follows the sweep call of 08:00 of
\* the same window, which had reactivated user 1
C1_Witness ==
  /\ step.kind = "sweep"
  /\ step.repeatOf # Null
  /\ step.repeatOf < now
  /\ sys.lastDailyReactivateAt = CurrentLatest
  /\ users[1].quotaWindowStartAt = CurrentLatest
  /\ trace = <<>>

\* C3: ensureDailyQuotaRefresh runs the batch (one re-enable attempt for every
\* eligible user, then the stamp) exactly when lastDailyReactivateAt is null or
\* strictly earlier than the latest boundary; it then sets lastDailyReactivateAt
\* to the boundary, and it runs one batch however many boundaries were missed.
C3_BatchIffStampOlder ==
  step.kind = "sweep" =>
    IF StampOlderThan(step.lastBefore, CurrentLatest)
    THEN /\ StampCount(trace) = 1
         /\ sys.lastDailyReactivateAt = CurrentLatest
         /\ \A u \in Users :
              ToggleCount(trace, u, TRUE) = IF u \in Eligible(users) THEN 1 ELSE 0
    ELSE /\ trace = <<>>
         /\ sys.lastDailyReactivateAt = step.lastBefore

\* C3 witness: a sweep that finds a stamp two boundaries old, runs one batch
\* and stamps the boundary, which is earlier than the instant of the call
C3_Witness ==
  /\ step.kind = "sweep"
  /\ step.lastBefore # Null
  /\ step.lastBefore + 2 * DAY_MS <= CurrentLatest
  /\ StampCount(trace) = 1
  /\ ToggleCount(trace, 1, TRUE) = 1
  /\ sys.lastDailyReactivateAt = CurrentLatest
  /\ CurrentLatest < now

\* C6: when a sweep runs its batch, every user that is not banned and has a
\* remote key and whose adapter calls succeeded has its key enabled at the
\* backend and its row reset (keyAutoDisabled false, autoDisabledAt null,
\* quotaWindowStartAt the boundary, quotaWindowBaseUsage = lastKnownUsage = the
\* usage observed), auto-disabled before or not; banned and key-less users are
\* not touched.
C6_SweepResetsEligibleUsers ==
  [][(step'.kind = "sweep" /\ StampCount(trace') = 1) =>
       \A u \in Users :
         /\ (u \in Eligible(users) /\ ToggleOk(trace', u, TRUE)) =>
              /\ keyEnabled'[u]
              /\ ~users'[u].keyAutoDisabled
              /\ users'[u].autoDisabledAt = Null
              /\ users'[u].quotaWindowStartAt = CurrentLatest
              /\ users'[u].quotaWindowBaseUsage = users'[u].lastKnownUsage
              /\ \E i \in DOMAIN trace' :
                   /\ trace'[i].ev = "getUsage" /\ trace'[i].user = u
                   /\ trace'[i].val = users'[u].lastKnownUsage
                   /\ trace'[i].ok => trace'[i].val = backendUsed[u]
         /\ u \notin Eligible(users) =>
              /\ ~Touched(trace', u)
              /\ users'[u] = users[u]
              /\ keyEnabled'[u] = keyEnabled[u]]_vars

\* C6 witness: a sweep that reset user 1, which was auto-disabled with its
\* quota used, and user 2, which was not auto-disabled
C6_Witness ==
  /\ step.kind = "sweep"
  /\ \E i \in DOMAIN trace :
       trace[i].ev = "writeReset" /\ trace[i].user = 1 /\ trace[i].enabled
  /\ \E i \in DOMAIN trace :
       trace[i].ev = "writeReset" /\ trace[i].user = 2 /\ ~trace[i].enabled
  /\ \E i \in DOMAIN trace :
       trace[i].ev = "getUsage" /\ trace[i].user = 1 /\ trace[i].ok /\ trace[i].val > 0
  /\ keyEnabled[1] /\ ~users[1].keyAutoDisabled
  /\ users[1].quotaWindowBaseUsage = backendUsed[1]
  /\ users[1].quotaWindowStartAt = CurrentLatest

\* C7: in the sweep a user's keyAutoDisabled is cleared only if
\* toggleKeyEnabled(key, true) returned for that user in that sweep; when the
\* call fails the user's row is left as it was.
C7_ClearedOnlyOnSuccess ==
  [][step'.kind = "sweep" =>
       \A u \in Users :
         /\ (users[u].keyAutoDisabled /\ ~users'[u].keyAutoDisabled) =>
              ToggleOk(trace', u, TRUE)
         /\ ToggleFailed(trace', u, TRUE) => users'[u] = users[u]
         /\ ToggleFailed(trace', u, TRUE) => keyEnabled'[u] = keyEnabled[u]]_vars

\* C7 witness: a sweep in which the re-enable call failed for the auto-disabled
\* user 1, whose row still says auto-disabled with the window of the day before
C7_Witness ==
  /\ step.kind = "sweep"
  /\ ToggleFailed(trace, 1, TRUE)
  /\ users[1].keyAutoDisabled
  /\ users[1].autoDisabledAt # Null
  /\ users[1].quotaWindowStartAt < CurrentLatest
  /\ ~keyEnabled[1]

\* C8: a failed adapter call for one user in the sweep does not stop the
\* reactivation of the other eligible users, and lastDailyReactivateAt is
\* written exactly once per batch, after every per-user attempt, failures or not.
C8_FailureBlocksNothing ==
  (step.kind = "sweep" /\ trace # <<>>) =>
    /\ StampCount(trace) = 1
    /\ trace[Len(trace)].ev = "writeLast"
    /\ sys.lastDailyReactivateAt = trace[Len(trace)].val
    /\ \A u \in Eligible(users) :
         /\ ToggleCount(trace, u, TRUE) = 1
         /\ ToggleOk(trace, u, TRUE) =>
              keyEnabled[u] /\ ~users[u].keyAutoDisabled

\* C8 witness: a sweep in which the call failed for user 1 and user 2, which
\* comes after it, was reactivated, and the stamp was written
C8_Witness ==
  /\ step.kind = "sweep"
  /\ ToggleFailed(trace, 1, TRUE)
  /\ ToggleOk(trace, 2, TRUE)
  /\ users[2].quotaWindowStartAt = CurrentLatest
  /\ keyEnabled[2]
  /\ trace[Len(trace)].ev = "writeLast"
  /\ sys.lastDailyReactivateAt = CurrentLatest

\* C2: neither the sweep nor the evaluator calls toggleKeyEnabled (true or
\* false) for a user whose isBanned is true when the operation reads the user,
\* nor changes that user's keyAutoDisabled.
C2_BannedUsersUntouched ==
  [][step'.kind \in {"sweep", "eval"} =>
       \A u \in Users :
         users[u].isBanned =>
           /\ ToggleCount(trace', u, TRUE) = 0
           /\ ToggleCount(trace', u, FALSE) = 0
           /\ users'[u].keyAutoDisabled = users[u].keyAutoDisabled]_vars

\* C2 witness: the evaluation of user 1, banned when the evaluator re-read its
\* row, called toggleKeyEnabled(key, true) for it and reset its quota window
C2_Witness ==
  /\ step.kind = "eval" /\ step.user = 1
  /\ users[1].isBanned
  /\ ToggleCount(trace, 1, TRUE) = 1
  /\ \E i \in DOMAIN trace : trace[i].ev = "writeReset" /\ trace[i].user = 1

\* A row whose quota window started before the latest boundary
WindowOlderThan(row, boundary) ==
  row.quotaWindowStartAt # Null /\ row.quotaWindowStartAt < boundary

\* User u is auto-disabled and was left out of the reset of the current
\* window: the window has been swept, and u's quota window is still an older one
LeftDisabled(u) ==
  /\ HasKeyId(users[u])
  /\ users[u].keyAutoDisabled
  /\ WindowOlderThan(users[u], CurrentLatest)
  /\ sys.exists
  /\ ~StampOlderThan(sys.lastDailyReactivateAt, CurrentLatest)

C11_LoginReactivates ==
  [][\A u \in Users :
       (/\ step'.outcome = "dashboard" /\ step'.user = u
        /\ HasKeyId(users[u]) /\ ~users[u].isBanned
        /\ users[u].keyAutoDisabled) =>
         /\ ToggleCount(trace', u, TRUE) >= 1
         /\ keyEnabled'[u]
         /\ ~users'[u].keyAutoDisabled]_vars

\* C11 witness: user 1, auto-disabled, has logged in and was sent to the
\* dashboard; the callback made no adapter call, the key is still disabled and
\* the row still says auto-disabled
C11_Witness ==
  /\ step.outcome = "dashboard" /\ step.user = 1
  /\ trace = <<>>
  /\ users[1].keyAutoDisabled
  /\ ~users[1].isBanned
  /\ ~keyEnabled[1]

\* C12: when the re-enable call for an auto-disabled user fails during the
\* user's login, the OAuth callback ends with error cch_reactivate_failed, not
\* with the generic auth_failed and not on the dashboard.
C12_ReactivationFailureOutcome ==
  (/\ step.outcome # "none"
   /\ step.user \in Users
   /\ HasKeyId(users[step.user]) /\ ~users[step.user].isBanned
   /\ users[step.user].keyAutoDisabled
   /\ ToggleFailed(trace, step.user, TRUE)) =>
    step.outcome = "cch_reactivate_failed"

\* C12 witness: the login of the auto-disabled user 1 in which the only
\* re-enable call made for it, the sweep's, failed, and which ended on the
\* dashboard
C12_Witness ==
  /\ step.outcome = "dashboard" /\ step.user = 1
  /\ ToggleFailed(trace, 1, TRUE)
  /\ users[1].keyAutoDisabled
  /\ ~keyEnabled[1]

\* The first of three timestamps that is not null
FirstNonNull(a, b, c) == IF a # Null THEN a ELSE IF b # Null THEN b ELSE c

\* The usage counter an evaluation step got from the adapter (Null: no request)
ObservedUsage(tr, u) ==
  IF \E i \in DOMAIN tr : tr[i].ev = "getUsage" /\ tr[i].user = u
  THEN LET i == CHOOSE j \in DOMAIN tr : tr[j].ev = "getUsage" /\ tr[j].user = u
       IN  tr[i].val
  ELSE Null

UsageFailed(tr, u) ==
  \E i \in DOMAIN tr : tr[i].ev = "getUsage" /\ tr[i].user = u /\ ~tr[i].ok

\* C15: for a non-banned, not auto-disabled user with a remote key whose quota
\* window is current, evaluateUserKeyPolicy calls toggleKeyEnabled(key, false),
\* persists keyAutoDisabled = true with autoDisabledAt = now and returns
\* quota_exhausted exactly when used - quotaWindowBaseUsage >= dailyQuotaLimit
\* and the disable call succeeds; below the limit it makes no toggle call and
\* returns active.
C15_DisabledAtQuotaLimit ==
  [][\A u \in Users :
       (/\ step'.kind = "eval" /\ step'.user = u
        /\ HasKeyId(users[u]) /\ ~users[u].isBanned
        /\ ~users[u].keyAutoDisabled
        /\ ~WindowOlderThan(users[u], CurrentLatest)) =>
         IF ObservedUsage(trace', u) - users[u].quotaWindowBaseUsage
              < CurrentConfig.dailyQuotaLimit
         THEN /\ ToggleCount(trace', u, FALSE) = 0
              /\ ToggleCount(trace', u, TRUE) = 0
              /\ keyEnabled'[u] = keyEnabled[u]
              /\ ~users'[u].keyAutoDisabled
              /\ step'.keyStatus = "active"
         ELSE /\ ToggleCount(trace', u, FALSE) = 1
              /\ ToggleCount(trace', u, TRUE) = 0
              /\ IF ToggleOk(trace', u, FALSE)
                 THEN /\ ~keyEnabled'[u]
                      /\ users'[u].keyAutoDisabled
                      /\ users'[u].autoDisabledAt = now
                      /\ step'.keyStatus = "quota_exhausted"
                 ELSE /\ keyEnabled'[u] = keyEnabled[u]
                      /\ ~users'[u].keyAutoDisabled
                      /\ users'[u].autoDisabledAt = users[u].autoDisabledAt
                      /\ step'.keyStatus = "active"]_vars

\* C15 witness: with dailyQuotaLimit = 1, user 1 has used exactly 1 since the
\* start of its current window; the evaluation disabled the key
C15_Witness ==
  /\ step.kind = "eval" /\ step.user = 1
  /\ sys.dailyQuotaLimit = 1
  /\ users[1].lastKnownUsage - users[1].quotaWindowBaseUsage = 1
  /\ users[1].quotaWindowStartAt >= CurrentLatest
  /\ ToggleOk(trace, 1, FALSE)
  /\ ~keyEnabled[1]
  /\ users[1].keyAutoDisabled
  /\ users[1].autoDisabledAt = now
  /\ step.keyStatus = "quota_exhausted"

\* C16: when the usage request fails during an evaluation, the evaluator
\* treats the usage as unchanged: lastKnownUsage is not modified (not
\* overwritten with 0) and no disable decision is taken in that evaluation.
C16_FailedUsageLeavesCounter ==
  [][\A u \in Users :
       (step'.kind = "eval" /\ step'.user = u /\ UsageFailed(trace', u)) =>
         /\ users'[u].lastKnownUsage = users[u].lastKnownUsage
         /\ ToggleCount(trace', u, FALSE) = 0
         /\ users[u].keyAutoDisabled \/ ~users'[u].keyAutoDisabled]_vars

\* C16 witness: an evaluation of user 1 whose usage request failed while the
\* backend counter was above 0, and which stored lastKnownUsage = 0
C16_Witness ==
  /\ step.kind = "eval" /\ step.user = 1
  /\ UsageFailed(trace, 1)
  /\ backendUsed[1] > 0
  /\ \E i \in DOMAIN trace :
       trace[i].ev = "writeUsage" /\ trace[i].user = 1 /\ trace[i].val = 0
  /\ users[1].lastKnownUsage = 0

\* C17: when the usage request fails for a user during the sweep, that user is
\* not reactivated and not marked done: the key is not toggled, and the user's
\* quotaWindowStartAt, quotaWindowBaseUsage, lastKnownUsage and
\* keyAutoDisabled are not overwritten.
C17_FailedUsageSkipsUser ==
  [][\A u \in Users :
       (step'.kind = "sweep" /\ UsageFailed(trace', u)) =>
         /\ ToggleCount(trace', u, TRUE) = 0
         /\ keyEnabled'[u] = keyEnabled[u]
         /\ users'[u].quotaWindowStartAt = users[u].quotaWindowStartAt
         /\ users'[u].quotaWindowBaseUsage = users[u].quotaWindowBaseUsage
         /\ users'[u].lastKnownUsage = users[u].lastKnownUsage
         /\ users'[u].keyAutoDisabled = users[u].keyAutoDisabled]_vars

\* C17 witness: a sweep in which the usage request of user 1 failed while the
\* backend counter was above 0: the key was re-enabled and the row reset with
\* quotaWindowBaseUsage = lastKnownUsage = 0
C17_Witness ==
  /\ step.kind = "sweep"
  /\ UsageFailed(trace, 1)
  /\ ToggleOk(trace, 1, TRUE)
  /\ backendUsed[1] > 0
  /\ users[1].quotaWindowBaseUsage = 0
  /\ users[1].lastKnownUsage = 0
  /\ users[1].quotaWindowStartAt = CurrentLatest
  /\ \E i \in DOMAIN trace :
       trace[i].ev = "writeReset" /\ trace[i].user = 1 /\ trace[i].enabled

\* An input of updateKeyPolicyConfig whose three values are integers in range
ValidInput(input) ==
  /\ input.dailyQuotaLimit \in 1..100000
  /\ input.dailyReactivateHourBjt \in 0..23
  /\ input.dailyReactivateMinuteBjt \in 0..59

InRange(config) ==
  /\ config.dailyQuotaLimit \in 1..100000
  /\ config.dailyReactivateHourBjt \in 0..23
  /\ config.dailyReactivateMinuteBjt \in 0..59

SameTunables(row, config) ==
  /\ row.dailyQuotaLimit = config.dailyQuotaLimit
  /\ row.dailyReactivateHourBjt = config.dailyReactivateHourBjt
  /\ row.dailyReactivateMinuteBjt = config.dailyReactivateMinuteBjt

\* C18: every config returned by getKeyPolicyConfig or updateKeyPolicyConfig
\* has its threshold in [1,100000], its hour in [0,23] and its minute in
\* [0,59], for any stored or supplied values (non-finite and fractional ones
\* included); and once getKeyPolicyConfig has returned, the stored row holds
\* exactly the returned clamped values.
C18_ReturnedConfigIsClamped ==
  /\ (step.kind \in {"read", "update"}) => InRange(step.returned)
  /\ (step.kind = "read") => (sys.exists /\ SameTunables(sys, step.returned))

\* C18 witness: a read that found a threshold above the range and an hour and
\* a minute below it, and left 100000, 0 and 0 in the row
C18_Witness ==
  /\ step.kind = "read"
  /\ step.before.exists
  /\ step.before.dailyQuotaLimit > 100000
  /\ step.before.dailyReactivateHourBjt < 0
  /\ step.before.dailyReactivateMinuteBjt < 0
  /\ sys.dailyQuotaLimit = 100000
  /\ sys.dailyReactivateHourBjt = 0
  /\ sys.dailyReactivateMinuteBjt = 0

\* C19: updateKeyPolicyConfig is idempotent: for every valid input A and every
\* prior stored config, applying updateKeyPolicyConfig(A) a second time leaves
\* the stored config and the returned config as the first application did.
C19_UpdateIsIdempotent ==
  [][(/\ step.kind = "update" /\ step'.kind = "update"
      /\ step'.input = step.input
      /\ ValidInput(step.input)) =>
       /\ sys' = sys
       /\ step'.returned = step.returned]_vars

\* C19 witness: the second of two updates with the same valid input
C19_Witness ==
  /\ step.kind = "update"
  /\ step.repeat
  /\ ValidInput(step.input)
  /\ SameTunables(sys, step.input)
  /\ step.before = sys

\* C20: after a PATCH with a valid threshold T, hour h and minute m succeeds,
\* a subsequent read of the policy config returns threshold T, hour h and
\* minute m.
C20_PatchStoresSubmitted ==
  (step.kind = "patch" /\ step.status = 200) =>
    /\ getKeyPolicyConfigResult(sys).dailyQuotaLimit = step.body.inactivityHours
    /\ getKeyPolicyConfigResult(sys).dailyReactivateHourBjt
         = step.body.dailyReactivateHourBjt
    /\ getKeyPolicyConfigResult(sys).dailyReactivateMinuteBjt
         = step.body.dailyReactivateMinuteBjt

\* C20 witness: a PATCH with threshold 5, 20:30, was answered 200 and the row
\* holds threshold 1
C20_Witness ==
  /\ step.kind = "patch" /\ step.status = 200
  /\ step.body.inactivityHours = 5
  /\ step.body.dailyReactivateHourBjt = 20
  /\ step.body.dailyReactivateMinuteBjt = 30
  /\ sys.dailyQuotaLimit = 1
  /\ sys.dailyReactivateHourBjt = 20
  /\ sys.dailyReactivateMinuteBjt = 30

\* A number a settings update may not carry in a field whose range is lo..hi:
\* none at all, one with a fractional part, or one outside the range
BadNumber(value, lo, hi) ==
  \/ value = NonFinite
  \/ IsFraction(value)
  \/ value < lo
  \/ value > hi

\* C21: a settings update arriving through the administrative path (from an
\* admin, so not answered 403) whose threshold, hour or minute is missing, not
\* an integer or out of range is rejected with a validation error (400) and
\* leaves the stored config unchanged; it is never clamped and stored.
C21_InvalidPatchRejected ==
  (/\ step.kind = "patch" /\ step.status # 403
   /\ \/ BadNumber(step.body.inactivityHours, 1, 168)
      \/ BadNumber(step.body.dailyReactivateHourBjt, 0, 23)
      \/ BadNumber(step.body.dailyReactivateMinuteBjt, 0, 59)) =>
    /\ step.status = 400
    /\ sys = step.before

\* C21 witness: an admin's PATCH whose only fault is a threshold of 5.5 was
\* answered 400 and the out-of-range row it found is still there
C21_Witness ==
  /\ step.kind = "patch" /\ step.status = 400
  /\ step.body.inactivityHours = Fraction(11)
  /\ step.body.dailyReactivateHourBjt = 20
  /\ step.body.dailyReactivateMinuteBjt = 30
  /\ step.before.exists
  /\ step.before.dailyQuotaLimit = 100001
  /\ sys = step.before

\* The requests of a call, by kind
CookieSends(tr) == {i \in DOMAIN tr : tr[i].ev = "action" /\ tr[i].auth = "cookie"}

BearerSends(tr) == {i \in DOMAIN tr : tr[i].ev = "action" /\ tr[i].auth = "bearer"}

ActionSends(tr) == {i \in DOMAIN tr : tr[i].ev = "action"}

ForcedRefreshes(tr) == {i \in DOMAIN tr : tr[i].ev = "login" /\ tr[i].forced}

\* C22: within one adapter call, a 401 answer to the action request triggers
\* exactly one forced refresh of the session token, followed (when the refresh
\* yields a token) by one retry of the request; a 401 on the retry triggers no
\* further refresh and no further session-authenticated retry, so the call
\* is over after at most five requests.
C22_OneRefreshOneRetry ==
  /\ Cardinality(ForcedRefreshes(trace)) <= 1
  /\ Cardinality(CookieSends(trace)) <= 2
  /\ Len(trace) <= 5
  /\ \A i \in ForcedRefreshes(trace) :
       /\ i > 1
       /\ (i - 1) \in CookieSends(trace)
       /\ trace[i - 1].resp = "unauthorized"
  /\ \A i \in CookieSends(trace) :
       trace[i].resp = "unauthorized" =>
         IF \A j \in CookieSends(trace) : j >= i
         THEN /\ IF i = Len(trace)
                 THEN calc.pc = "forceRefresh"
                 ELSE (i + 1) \in ForcedRefreshes(trace)
              /\ (i < Len(trace) /\ trace[i + 1].resp = "token") =>
                   IF i + 1 = Len(trace)
                   THEN calc.pc = "cookieFetch"
                   ELSE (i + 2) \in CookieSends(trace)
         ELSE /\ \A k \in DOMAIN trace : k > i => k \in BearerSends(trace)
              /\ i = Len(trace) => calc.pc = "bearerFetch"

\* C22 witness: a finished call whose action request got 401, which refreshed
\* the token, retried, got 401 again and went on to the Bearer request
C22_Witness ==
  /\ calc.pc = "done"
  /\ Len(trace) = 4
  /\ trace[1] = Request("action", "cookie", FALSE, "unauthorized")
  /\ trace[2] = Request("login", "key", TRUE, "token")
  /\ trace[3] = Request("action", "cookie", FALSE, "unauthorized")
  /\ trace[4].auth = "bearer"

SweptSinceBoundary ==
  ~StampOlderThan(getOrCreateSystemState(sys).lastDailyReactivateAt, CurrentLatest)

\* C24: provided requests keep arriving after each boundary (evaluations
\* finish and the catch-up check has run since the latest boundary, again and
\* again) and the adapter calls for a user eventually succeed, every
\* non-banned user with a remote key that is auto-disabled while a following
\* window is still to come is eventually reactivated (key enabled,
\* keyAutoDisabled = false), or banned in the meantime.
C24_EventuallyReactivated ==
  ([]<>NoEvalRunning /\ []<>SweptSinceBoundary) =>
    \A u \in Users :
      (/\ HasKeyId(users[u]) /\ ~users[u].isBanned
       /\ users[u].keyAutoDisabled
       /\ now < ClockAt(MaxTicks))
        ~> (\/ keyEnabled[u] /\ ~users[u].keyAutoDisabled
            \/ users[u].isBanned)

\* C24 witness: the sweep at the last instant found user 1 auto-disabled from
\* an earlier window, re-enabled its key and cleared the flag
C24_Witness ==
  /\ step.kind = "sweep"
  /\ now = ClockAt(MaxTicks)
  /\ ToggleOk(trace, 1, TRUE)
  /\ \E i \in DOMAIN trace :
       trace[i].ev = "writeReset" /\ trace[i].user = 1 /\ trace[i].enabled
  /\ keyEnabled[1]
  /\ ~users[1].keyAutoDisabled
  /\ ~users[1].isBanned


\* The invocations of the race that computed the same latest boundary
SameBoundary(p, q) ==
  /\ p # q
  /\ calc[p].latest # Null
  /\ calc[p].latest = calc[q].latest

\* C25: of the concurrent ensureDailyQuotaRefresh invocations that compute the
\* same latest boundary, at most one performs the reactivation batch, and the
\* key of an eligible user receives at most one toggleKeyEnabled(key, true)
\* from the sweep for that boundary.
C25_OneBatchPerBoundary ==
  \A p \in Procs : \A q \in Procs :
    SameBoundary(p, q) =>
      /\ ~(calc[p].batch /\ calc[q].batch)
      /\ calc[p].enables + calc[q].enables <= 1

\* C25 witness: both invocations read the stale lastDailyReactivateAt before
\* either stamped it, both ran the batch for the same boundary and both
\* re-enabled user 1's key
C25_Witness ==
  /\ SameBoundary("a", "b")
  /\ calc["a"].pc = "done" /\ calc["b"].pc = "done"
  /\ calc["a"].batch /\ calc["b"].batch
  /\ calc["a"].enables = 1 /\ calc["b"].enables = 1
  /\ sys.lastDailyReactivateAt = calc["a"].latest

\* C26: nothing prevents an evaluation from disabling a key a concurrent sweep
\* has just re-enabled: a finished evaluation of a user with a remote key
\* called toggleKeyEnabled(key, false) exactly when the row it read with
\* findUnique was over the threshold, whatever was written to that row since,
\* and persisted keyAutoDisabled = true exactly when that call succeeded.
C26_DecidesOnRowRead ==
  \A p \in Procs :
    (calc[p].kind = "eval" /\ calc[p].pc = "done" /\ HasKeyId(calc[p].snap)) =>
      /\ (calc[p].disable # "none") <=>
           EvalExhausted(calc[p].snap, calc[p].latest, calc[p].used, calc[p].config)
      /\ calc[p].wrote <=> (calc[p].disable = "ok")

\* C26 witness: a sweep for the new boundary re-enabled user 1's key and reset
\* its quota window, then an evaluation that had read the row before the
\* boundary disabled the key and set keyAutoDisabled: the user is auto-disabled
\* in the new window with nothing used in it
C26_Witness ==
  \E p \in Procs : \E q \in Procs :
    /\ calc[p].kind = "eval" /\ calc[p].pc = "done" /\ calc[p].wrote
    /\ calc[q].kind = "sweep" /\ calc[q].pc = "done" /\ calc[q].enables = 1
    /\ calc[q].latest > calc[p].latest
    /\ users[1].quotaWindowStartAt = calc[q].latest
    /\ users[1].quotaWindowBaseUsage = backendUsed[1]
    /\ users[1].keyAutoDisabled
    /\ users[1].autoDisabledAt = calc[p].date
    /\ ~keyEnabled[1]

\* Both invocations are evaluations of user 1 that read keyAutoDisabled = false,
\* called toggleKeyEnabled(key, false) and wrote, and both have finished
BothDisabled ==
  \A p \in Procs :
    /\ calc[p].kind = "eval" /\ calc[p].user = 1 /\ calc[p].pc = "done"
    /\ HasKeyId(calc[p].snap) /\ ~calc[p].snap.isBanned
    /\ ~calc[p].snap.keyAutoDisabled
    /\ calc[p].disable = "ok" /\ calc[p].wrote

\* C27: when two concurrent evaluations of the same over-threshold, non-banned
\* user both read keyAutoDisabled = false, both call toggleKeyEnabled(key,
\* false) and both write, then once both have finished the row has
\* keyAutoDisabled = true, autoDisabledAt is the instant of one of the two
\* evaluations (not null), and the backend key is disabled.
C27_DoubleDisableIsBenign ==
  BothDisabled =>
    /\ users[1].keyAutoDisabled
    /\ users[1].autoDisabledAt # Null
    /\ users[1].autoDisabledAt \in {calc[p].date : p \in Procs}
    /\ ~keyEnabled[1]

\* C27 witness: two evaluations at different instants both disabled user 1 and
\* both wrote; the row carries the autoDisabledAt of one of them
C27_Witness ==
  /\ BothDisabled
  /\ calc["a"].date # calc["b"].date
  /\ users[1].keyAutoDisabled
  /\ users[1].autoDisabledAt = calc["a"].date
  /\ ~keyEnabled[1]

\* The program points of an evaluation from its re-read of the user's row to
\* its last decision
Deciding == {"findUnique", "usage", "writeUsage", "enable", "writeWindow", "disable"}

\* C29: the sweep catch-up check has run to completion before the evaluation
\* re-reads and evaluates the user's row, so whenever an evaluation takes its
\* decision lastDailyReactivateAt is at or after the latest boundary of the
\* evaluation's instant under the config it resolved.
C29_SweptBeforeDecision ==
  \A p \in Procs :
    (calc[p].kind = "eval" /\ calc[p].pc \in Deciding) =>
      ~StampOlderThan(sys.lastDailyReactivateAt, calc[p].latest)

\* C29 witness: an evaluation after the boundary has finished its catch-up
\* check and is about to re-read the row, while the stamp a concurrent
\* invocation started before the boundary wrote is the older boundary
C29_Witness ==
  \E p \in Procs : \E q \in Procs :
    /\ calc[p].kind = "eval" /\ calc[p].pc = "findUnique"
    /\ calc[q].batch /\ calc[q].pc \in {"done", "findUnique"}
    /\ calc[q].latest < calc[p].latest
    /\ sys.lastDailyReactivateAt = calc[q].latest

\* C28: evaluateUserKeyPolicy decides on the user's row as persisted when it
\* evaluates, not on the caller's snapshot: for a user in the store, two
\* evaluations at the same instant that receive different caller snapshots make
\* the same adapter calls and the same writes and return the same state.
C28_CallerSnapshotIgnored ==
  \A u \in Users :
    req[u] = "swept" =>
      \A out \in EvalOutcomes :
        \A user1 \in CallerSnapshots(u) : \A user2 \in CallerSnapshots(u) :
          evaluateUserKeyPolicy(World(sys, users, keyEnabled), user1, u, now,
                                CurrentConfig, out)
            = evaluateUserKeyPolicy(World(sys, users, keyEnabled), user2, u, now,
                                    CurrentConfig, out)

\* C28 witness: user 1 was banned after GET /api/user/key had read its row (a
\* banned row is answered 403 and never evaluated) with its usage at the
\* limit; the evaluation honoured the ban: it made no disable call and set no
\* flag
C28_Witness ==
  /\ step.kind = "eval" /\ step.user = 1
  /\ users[1].isBanned
  /\ HasKeyId(users[1])
  /\ users[1].quotaWindowStartAt >= CurrentLatest
  /\ users[1].lastKnownUsage - users[1].quotaWindowBaseUsage >= sys.dailyQuotaLimit
  /\ sys.dailyQuotaLimit >= 1
  /\ \A i \in DOMAIN trace : trace[i].ev # "toggle"
  /\ ~users[1].keyAutoDisabled
  /\ step.keyStatus = "active"

\* The sweep step of u's evaluation has just returned early: no sweep was due
NoSweepDue(u) ==
  /\ step.kind = "sweep" /\ step.user = u
  /\ ~StampOlderThan(step.lastBefore, CurrentLatest)

\* The usage request of the trace returned lastKnownUsage of the row
UsageUnchanged(tr, row, u) ==
  \E i \in DOMAIN tr :
    tr[i].ev = "getUsage" /\ tr[i].user = u /\ tr[i].val = row.lastKnownUsage

\* The user step of u's evaluation, of a user with unchanged usage who is not
\* auto-disabled and has not reached the threshold, follows
QuietEvaluation(u) ==
  /\ NoSweepDue(u)
  /\ step'.kind = "eval" /\ step'.user = u
  /\ HasKeyId(users[u])
  /\ ~users[u].keyAutoDisabled
  /\ UsageUnchanged(trace', users[u], u)
  /\ EvalTodayUsed(users[u], CurrentLatest, users[u].lastKnownUsage)
       < CurrentConfig.dailyQuotaLimit

\* An evaluation step that writes nothing and makes no toggleKeyEnabled call
ChangesNothing ==
  /\ users' = users
  /\ sys' = sys
  /\ keyEnabled' = keyEnabled
  /\ \A i \in DOMAIN trace' : trace'[i].ev = "getUsage"

\* The sweep step of an evaluation for which no sweep is due writes nothing
EarlyReturnWritesNothing ==
  (/\ step'.kind = "sweep" /\ step'.user # 0
   /\ ~StampOlderThan(step'.lastBefore, CurrentLatest)) =>
     /\ users' = users
     /\ sys' = sys
     /\ keyEnabled' = keyEnabled
     /\ trace' = <<>>

\* C30 as stated: an evaluation of a user whose backend usage equals
\* lastKnownUsage, who is not auto-disabled, whose threshold is not reached and
\* for whom no sweep is due writes no user row, no config or last-sweep value
\* and makes no toggleKeyEnabled call.
C30_QuietEvaluationChangesNothing ==
  [][/\ EarlyReturnWritesNothing
     /\ \A u \in Users : QuietEvaluation(u) => ChangesNothing]_vars

\* C30 amended: an evaluation of a user whose backend usage (as the usage
\* request returns it) equals lastKnownUsage, who is not auto-disabled, whose
\* threshold is not reached, whose quota window is not older than the latest
\* boundary and for whom no sweep is due writes no user row, no config or
\* last-sweep value and makes no toggleKeyEnabled call.
C30_QuietCurrentWindowChangesNothing ==
  [][/\ EarlyReturnWritesNothing
     /\ \A u \in Users :
          (QuietEvaluation(u) /\ ~WindowOlderThan(users[u], CurrentLatest))
            => ChangesNothing]_vars

\* C30 witness: user 1 has used 1 of a limit of 100 in its current window and
\* the backend still reports 1; the evaluation made the usage request and
\* nothing else
C30_Witness ==
  /\ step.kind = "eval" /\ step.user = 1
  /\ sys.dailyQuotaLimit = 100
  /\ sys.lastDailyReactivateAt = CurrentLatest
  /\ ~WindowOlderThan(users[1], CurrentLatest)
  /\ users[1].lastKnownUsage = 1
  /\ users[1].quotaWindowBaseUsage = 0
  /\ ~users[1].keyAutoDisabled
  /\ keyEnabled[1]
  /\ Len(trace) = 1
  /\ trace[1].ev = "getUsage" /\ trace[1].ok /\ trace[1].val = 1
  /\ step.keyStatus = "active"

C32_TodayUsedAndRemaining ==
  (step.kind = "eval" /\ HasKeyId(users[1])) =>
    /\ calc.todayUsed = Max2(0, calc.usage - users[1].quotaWindowBaseUsage)
    /\ calc.todayRemaining = Max2(0, sys.dailyQuotaLimit - calc.todayUsed)
    /\ calc.todayUsed >= 0
    /\ calc.todayRemaining >= 0
    /\ calc.todayRemaining <= sys.dailyQuotaLimit
    /\ calc.usage < users[1].quotaWindowBaseUsage =>
         /\ calc.todayUsed = 0
         /\ ToggleCount(trace, 1, FALSE) = 0

\* C32 witness: the backend reports 1 for a current window whose base usage is
\* 2; todayUsed is 0, the whole limit remains and the key was not disabled
C32_Witness ==
  /\ step.kind = "eval" /\ step.user = 1
  /\ HasKeyId(users[1]) /\ ~users[1].isBanned /\ ~users[1].keyAutoDisabled
  /\ users[1].quotaWindowStartAt = EvalBoundary
  /\ users[1].quotaWindowBaseUsage = 2
  /\ calc.usage = 1
  /\ calc.todayUsed = 0
  /\ calc.todayRemaining = sys.dailyQuotaLimit
  /\ ToggleCount(trace, 1, FALSE) = 0
  /\ calc.keyStatus = "active"

\* C33: when toggleKeyEnabled(key, false) fails in the evaluator's disable
\* branch, the evaluation still returns, keyAutoDisabled stays false,
\* autoDisabledAt stays null, and the key status returned is active.
C33_FailedDisableLeavesUserActive ==
  (step.kind = "eval" /\ ToggleFailed(trace, 1, FALSE)) =>
    /\ ~users[1].keyAutoDisabled
    /\ users[1].autoDisabledAt = Null
    /\ calc.keyStatus = "active"
    /\ calc.autoDisabledAt = Null
    /\ ~\E i \in DOMAIN trace : trace[i].ev = "writeDisable"

\* C33 witness: user 1 has used 3 of a limit of 1 in its current window, the
\* disable call threw, and the evaluation returned active with the key still
\* enabled
C33_Witness ==
  /\ step.kind = "eval" /\ step.user = 1
  /\ ToggleFailed(trace, 1, FALSE)
  /\ users[1].quotaWindowStartAt = EvalBoundary
  /\ calc.todayUsed = 3 /\ sys.dailyQuotaLimit = 1
  /\ keyEnabled[1]
  /\ ~users[1].keyAutoDisabled
  /\ calc.keyStatus = "active"

\* C34: in every reachable persisted state and for every user, keyAutoDisabled
\* is true exactly when autoDisabledAt is non-null, under any interleaving of
\* sweeps and evaluations.
C34_FlagMatchesDate ==
  \A u \in Users : users[u].keyAutoDisabled <=> (users[u].autoDisabledAt # Null)

\* C34 witness: a sweep cleared the flag and the date of user 1, and an
\* evaluation running beside it then set both
C34_Witness ==
  \E p \in Procs : \E q \in Procs :
    /\ calc[p].kind = "sweep" /\ calc[p].pc = "done" /\ calc[p].enables = 1
    /\ calc[q].kind = "eval" /\ calc[q].pc = "done" /\ calc[q].wrote
    /\ users[1].quotaWindowStartAt = calc[p].latest
    /\ users[1].keyAutoDisabled
    /\ users[1].autoDisabledAt = calc[q].date

\* C35: whenever no sweep, evaluation, ban or unban is in flight, the flag of
\* every non-banned user with a remote key agrees with the backend:
\* keyAutoDisabled is true exactly when the backend key is disabled.
C35_FlagAgreesWithBackend ==
  (\A v \in Users : req[v] = "idle") =>
    \A u \in Users :
      (HasKeyId(users[u]) /\ ~users[u].isBanned) =>
        (users[u].keyAutoDisabled <=> ~keyEnabled[u])

\* C35 witness: user 1, auto-disabled in this window, was banned and then
\* unbanned with every adapter call succeeding: the unban re-enabled the key
\* and the flag still says auto-disabled
C35_Witness ==
  /\ \A v \in Users : req[v] = "idle"
  /\ step.kind = "unban" /\ step.user = 1
  /\ ToggleOk(trace, 1, TRUE)
  /\ ~users[1].isBanned
  /\ users[1].keyAutoDisabled
  /\ ~WindowOlderThan(users[1], CurrentLatest)
  /\ keyEnabled[1]

\* C36: lastDailyReactivateAt never decreases: under any interleaving of
\* sweeps, evaluations and config reads, every write of it stores a value
\* greater than or equal to the one stored before.
C36_StampNeverDecreases ==
  [][sys.lastDailyReactivateAt # Null =>
       /\ sys'.lastDailyReactivateAt # Null
       /\ sys'.lastDailyReactivateAt >= sys.lastDailyReactivateAt]_vars

\* C36 witness: both invocations ran the batch and have finished; the one
\* that computed the older boundary stamped last, and lastDailyReactivateAt is
\* below the boundary the other one had stamped
C36_Witness ==
  \E p \in Procs : \E q \in Procs :
    /\ calc[p].pc = "done" /\ calc[q].pc = "done"
    /\ calc[p].batch /\ calc[q].batch
    /\ calc[p].latest < calc[q].latest
    /\ sys.lastDailyReactivateAt = calc[p].latest

\* C37: once a ban of a user has completed (backend key disabled, isBanned
\* persisted), the backend key stays disabled until an unban: no sweep and no
\* evaluation re-enables it, including an evaluation whose route had read the
\* user before the ban.
C37_BannedKeyStaysDisabled ==
  [][\A u \in Users :
       (/\ HasKeyId(users[u]) /\ users[u].isBanned /\ ~keyEnabled[u]
        /\ step'.kind # "unban") =>
         ~keyEnabled'[u]]_vars

\* C37 witness: GET /api/user/key had read user 1 before the ban; after the
\* ban and the next boundary its evaluation found the quota window old and
\* re-enabled the key of the banned user
C37_Witness ==
  /\ step.kind = "eval" /\ step.user = 1
  /\ users[1].isBanned
  /\ now > T0
  /\ sys.lastDailyReactivateAt = CurrentLatest
  /\ users[1].quotaWindowStartAt = CurrentLatest
  /\ trace[Len(trace)].ev = "writeReset"
  /\ ToggleOk(trace, 1, TRUE)
  /\ keyEnabled[1]

\* C38: getKeyPolicyConfig and updateKeyPolicyConfig never change the
\* lastDailyReactivateAt of an existing config row and never write a user row:
\* they only create the row, with lastDailyReactivateAt null, when it is
\* missing, and write the three tunables.
C38_ConfigStoreKeepsStamp ==
  [][/\ sys.exists =>
          /\ sys'.exists
          /\ sys'.lastDailyReactivateAt = sys.lastDailyReactivateAt
     /\ (~sys.exists /\ sys'.exists) => sys'.lastDailyReactivateAt = Null
     /\ users' = users
     /\ keyEnabled' = keyEnabled]_vars

\* C38 witness: an update changed the quota limit of a row swept at T0 and
\* left its lastDailyReactivateAt at T0
C38_Witness ==
  /\ step.kind = "update"
  /\ step.before.exists
  /\ step.before.lastDailyReactivateAt = T0
  /\ step.before.dailyQuotaLimit # sys.dailyQuotaLimit
  /\ sys.lastDailyReactivateAt = T0

\* No callback of the identity is between its findUnique and its redirect
CallbacksQuiet == \A p \in Callers : calc.procs[p].pc \in {"idle", "done"}

\* C39: across any interleaving of OAuth callbacks for the same external
\* identity, addUser creates a remote user for it at most once, and once the
\* callbacks have returned every remote user created is the one the
\* identity's local row records.
C39_ProvisioningStaysPaired ==
  /\ calc.created <= 1
  /\ CallbacksQuiet => \A remote \in 1..calc.created : calc.row = remote

\* C39 witness: two callbacks of a new identity both found no row and both
\* called addUser; one created the row, the other's create threw and it
\* redirected to cch_creation_failed, leaving its remote user in no row
C39_Witness ==
  /\ CallbacksQuiet
  /\ calc.created = 2
  /\ calc.row = 1
  /\ \E p \in Callers : \E q \in Callers :
       /\ calc.procs[p].outcome = "dashboard" /\ calc.procs[p].remote = 1
       /\ calc.procs[q].outcome = "cch_creation_failed" /\ calc.procs[q].remote = 2

====
